---- MODULE Spec2Model ----
(***************************************************************************)
(* browserhive: the dispatch subsystem.  A gRPC front end (submitCapture)  *)
(* validates submissions and enqueues tasks on the WorkerPool's TaskQueue; *)
(* one dispatch loop per healthy Worker dequeues, runs Worker.process and  *)
(* requeues or completes the task.                                         *)
(*                                                                         *)
(* Strings the code inspects (urls, labels, correlation ids) are sequences *)
(* of one-character strings; error messages are tuples of their literal    *)
(* part and the interpolated values.  A taskId is a positive number, the   *)
(* empty task_id "" of a rejection is 0.                                   *)
(***************************************************************************)
EXTENDS Integers, Sequences, FiniteSets, TLC

\* ---- bounds of the model ----
\* the workers of the pool
NumWorkers == 2
\* the submissions that get a taskId (calls that reach randomUUID); calls
\* rejected before that are not counted
MaxSubmissions == 2
\* the largest maxRetries a configuration sets
MaxRetriesCfg == 1
\* the start() calls made on the pool
MaxStartCalls == 2
\* the transitionTo calls made on a status manager on its own
MaxTransitions == 4
\* the tasks enqueued in, and the dequeue calls made on, a task queue on its own
MaxEnqueued == 3
MaxDequeues == 4
\* the process calls made on a worker on its own, and how many of its calls
\* may be other than a process call whose capture returns a failure
MaxProcessCalls == 12
MaxOtherCalls == 3

\* ---- program constants ----
MAX_ERROR_HISTORY == 10
MAX_FILENAME_LENGTH == 100

Workers == 1..NumWorkers
TaskIds == 1..MaxSubmissions

Min(a, b) == IF a < b THEN a ELSE b

\* ------------------------------------------------------------------------
\* worker-status.ts / worker-status-manager.ts
\* ------------------------------------------------------------------------
ALL_WORKER_STATUSES == {"idle", "busy", "error", "stopped"}

WORKER_STATUS_DEFINITIONS ==
  [s \in ALL_WORKER_STATUSES |->
     CASE s = "idle"    -> [canProcess |-> TRUE,  healthy |-> TRUE,
                            allowedTransitions |-> {"busy", "error", "stopped"}]
       [] s = "busy"    -> [canProcess |-> FALSE, healthy |-> TRUE,
                            allowedTransitions |-> {"idle", "error", "stopped"}]
       [] s = "error"   -> [canProcess |-> FALSE, healthy |-> FALSE,
                            allowedTransitions |-> {"idle", "stopped"}]
       [] s = "stopped" -> [canProcess |-> FALSE, healthy |-> FALSE,
                            allowedTransitions |-> {"idle", "error"}]]

canProcess(s) == WORKER_STATUS_DEFINITIONS[s].canProcess

\* the health test that excludes only the stopped status
isHealthyStatusNotStopped(s) == s # "stopped"

isHealthyStatus(s) == WORKER_STATUS_DEFINITIONS[s].healthy

\* the transition test that lets every status follow every other
canTransitionToAny(from, to) == to \in ALL_WORKER_STATUSES

canTransitionTo(from, to) == to \in WORKER_STATUS_DEFINITIONS[from].allowedTransitions

\* transitionTo: the new status, and whether "Invalid status transition" is thrown
transitionTo(cur, next) ==
  IF cur = next THEN [status |-> cur, threw |-> FALSE]
  ELSE IF ~canTransitionTo(cur, next) THEN [status |-> cur, threw |-> TRUE]
  ELSE [status |-> next, threw |-> FALSE]

\* ------------------------------------------------------------------------
\* capture-status.ts
\* ------------------------------------------------------------------------
captureStatus == {"success", "failed", "timeout", "httpError"}

\* the success test that lets an HTTP error pass
isSuccessStatusOrHttpError(s) == s \in {"success", "httpError"}

isSuccessStatus(s) == s = "success"

\* ------------------------------------------------------------------------
\* strings
\* ------------------------------------------------------------------------
IsWhitespace(c) == c = " "

RECURSIVE TrimStart(_)
TrimStart(s) ==
  IF s = <<>> THEN <<>>
  ELSE IF IsWhitespace(Head(s)) THEN TrimStart(Tail(s)) ELSE s

RECURSIVE TrimEnd(_)
TrimEnd(s) ==
  IF s = <<>> THEN <<>>
  ELSE IF IsWhitespace(s[Len(s)]) THEN TrimEnd(SubSeq(s, 1, Len(s) - 1)) ELSE s

\* String.prototype.trim
Trim(s) == TrimEnd(TrimStart(s))

\* String.prototype.includes for a message given as a tuple of words
Includes(msg, word) == \E i \in DOMAIN msg : msg[i] = word

\* request.labels.map((l) => l.trim()).filter((l) => l !== "")
RECURSIVE TrimLabels(_)
TrimLabels(labels) ==
  IF labels = <<>> THEN <<>>
  ELSE LET l == Trim(Head(labels))
       IN IF l # <<>> THEN <<l>> \o TrimLabels(Tail(labels))
          ELSE TrimLabels(Tail(labels))

\* ------------------------------------------------------------------------
\* page-capturer.ts: validateFilename, validateLabels
\* ------------------------------------------------------------------------
INVALID_FILENAME_CHARS_LIST == {"<", ">", ":", "\"", "/", "\\", "|", "?", "*", "_"}

Valid == [valid |-> TRUE, error |-> <<>>]

Invalid(err) == [valid |-> FALSE, error |-> err]

validateFilename(name) ==
  IF Len(name) = 0
    THEN Invalid(<<"Invalid filename", name, "filename cannot be empty">>)
  ELSE IF Len(name) > MAX_FILENAME_LENGTH
    THEN Invalid(<<"Invalid filename", name, "filename exceeds 100 characters">>)
  ELSE IF \E i \in DOMAIN name : name[i] \in INVALID_FILENAME_CHARS_LIST
    THEN Invalid(<<"Invalid filename", name, "contains invalid characters">>)
  ELSE IF \E i \in DOMAIN name : IsWhitespace(name[i])
    THEN Invalid(<<"Invalid filename", name, "contains whitespace characters">>)
  ELSE Valid

RECURSIVE validateLabels(_)
validateLabels(labels) ==
  IF labels = <<>> THEN Valid
  ELSE LET result == validateFilename(Trim(Head(labels)))
       IN IF ~result.valid THEN result ELSE validateLabels(Tail(labels))

\* ------------------------------------------------------------------------
\* capture-options.ts
\* ------------------------------------------------------------------------
captureOptionsFromProto(proto) ==
  IF ~proto.defined THEN [png |-> FALSE, jpeg |-> FALSE, html |-> FALSE]
  ELSE [png |-> proto.png, jpeg |-> proto.jpeg, html |-> proto.html]

validateCaptureOptions(options) ==
  IF ~options.png /\ ~options.jpeg /\ ~options.html
    THEN Invalid(<<"At least one capture option must be enabled (png, jpeg, or html)">>)
  ELSE Valid

\* ------------------------------------------------------------------------
\* task-queue.ts: a queue value is [queue, processing, processingUrls, completed]
\* ------------------------------------------------------------------------
MapSet(m, k, v) == [x \in (DOMAIN m) \cup {k} |-> IF x = k THEN v ELSE m[x]]

MapDelete(m, k) == [x \in (DOMAIN m) \ {k} |-> m[x]]

NoTask == [taskId |-> 0, labels |-> <<>>, url |-> <<>>, retryCount |-> 0,
           captureOptions |-> [png |-> FALSE, jpeg |-> FALSE, html |-> FALSE],
           correlationId |-> <<>>]

EmptyQueue == [queue |-> <<>>, processing |-> {}, processingUrls |-> <<>>, completed |-> {}]

enqueue(q, task) == [q EXCEPT !.queue = Append(q.queue, task)]

enqueueAll(q, tasks) == [q EXCEPT !.queue = q.queue \o tasks]

\* dequeue that reads the head without shifting it off the queue
dequeuePeek(q) ==
  IF q.queue = <<>> THEN [q |-> q, task |-> NoTask]
  ELSE LET task == Head(q.queue)
       IN [q |-> [q EXCEPT !.processing = q.processing \cup {task.taskId},
                           !.processingUrls = MapSet(q.processingUrls, task.taskId, task.url)],
           task |-> task]

\* dequeue that does not record the URL of the task it hands out
dequeueForgetsUrl(q) ==
  IF q.queue = <<>> THEN [q |-> q, task |-> NoTask]
  ELSE LET task == Head(q.queue)
       IN [q |-> [q EXCEPT !.queue = Tail(q.queue),
                           !.processing = q.processing \cup {task.taskId}],
           task |-> task]

\* dequeue that takes the newest task, pop() for shift()
dequeuePop(q) ==
  IF q.queue = <<>> THEN [q |-> q, task |-> NoTask]
  ELSE LET task == q.queue[Len(q.queue)]
       IN [q |-> [q EXCEPT !.queue = SubSeq(q.queue, 1, Len(q.queue) - 1),
                           !.processing = q.processing \cup {task.taskId},
                           !.processingUrls = MapSet(q.processingUrls, task.taskId, task.url)],
           task |-> task]

\* dequeue: the queue afterwards and the task returned (NoTask for undefined)
dequeue(q) ==
  IF q.queue = <<>> THEN [q |-> q, task |-> NoTask]
  ELSE LET task == Head(q.queue)
       IN [q |-> [q EXCEPT !.queue = Tail(q.queue),
                           !.processing = q.processing \cup {task.taskId},
                           !.processingUrls = MapSet(q.processingUrls, task.taskId, task.url)],
           task |-> task]

\* requeue that puts the retried task at the head of the pending tasks
requeueAtHead(q, task) ==
  [q EXCEPT !.processing = q.processing \ {task.taskId},
            !.processingUrls = MapDelete(q.processingUrls, task.taskId),
            !.queue = <<[task EXCEPT !.retryCount = task.retryCount + 1]>> \o q.queue]

\* requeue that forgets to take the task out of processing
requeueKeepsProcessing(q, task) ==
  [q EXCEPT !.queue = Append(q.queue, [task EXCEPT !.retryCount = task.retryCount + 1])]

\* requeue that builds the retried task from the id and the URL alone
requeueDropsLabels(q, task) ==
  [q EXCEPT !.processing = q.processing \ {task.taskId},
            !.processingUrls = MapDelete(q.processingUrls, task.taskId),
            !.queue = Append(q.queue, [NoTask EXCEPT !.taskId = task.taskId,
                                                     !.url = task.url,
                                                     !.retryCount = task.retryCount + 1])]

requeue(q, task) ==
  [q EXCEPT !.processing = q.processing \ {task.taskId},
            !.processingUrls = MapDelete(q.processingUrls, task.taskId),
            !.queue = Append(q.queue, [task EXCEPT !.retryCount = task.retryCount + 1])]

\* markComplete that forgets to record the id as completed
markCompleteDropsTask(q, taskId) ==
  [q EXCEPT !.processing = q.processing \ {taskId},
            !.processingUrls = MapDelete(q.processingUrls, taskId)]

\* markComplete that leaves the task's URL in processingUrls
markCompleteKeepsUrl(q, taskId) ==
  [q EXCEPT !.processing = q.processing \ {taskId},
            !.completed = q.completed \cup {taskId}]

markComplete(q, taskId) ==
  [q EXCEPT !.processing = q.processing \ {taskId},
            !.processingUrls = MapDelete(q.processingUrls, taskId),
            !.completed = q.completed \cup {taskId}]

\* hasUrl that looks at the pending tasks only
hasUrlPendingOnly(q, url) == \E i \in DOMAIN q.queue : q.queue[i].url = url

hasUrl(q, url) ==
  IF \E i \in DOMAIN q.queue : q.queue[i].url = url THEN TRUE
  ELSE \E id \in DOMAIN q.processingUrls : q.processingUrls[id] = url

\* ------------------------------------------------------------------------
\* error-details.ts
\* ------------------------------------------------------------------------
errorDetailsFromException(message) ==
  IF Includes(message, "Timeout") THEN [type |-> "timeout", message |-> message]
  ELSE IF Includes(message, "disconnect") \/ Includes(message, "closed")
    THEN [type |-> "connection", message |-> message]
  ELSE [type |-> "internal", message |-> message]

NoErrorDetails == [type |-> "none", message |-> <<>>]

\* ------------------------------------------------------------------------
\* What PageCapturer.capture can do for Worker.process: resolve with a
\* CaptureResult built as capture() builds it, or reject.
\* A result is [status, error, errorDetails, synthetic]; error = <<>> is an
\* absent error field, synthetic marks the result Worker.process makes up
\* without a capture (captureProcessingTimeMs = 0, no capturer call).
\* ------------------------------------------------------------------------
NoResult == [status |-> "none", error |-> <<>>, errorDetails |-> NoErrorDetails,
             synthetic |-> FALSE]

SuccessResult == [status |-> "success", error |-> <<>>, errorDetails |-> NoErrorDetails,
                  synthetic |-> FALSE]

HttpErrorResult == [status |-> "httpError", error |-> <<>>,
                    errorDetails |-> [type |-> "http", message |-> <<"HTTP", "503">>],
                    synthetic |-> FALSE]

\* capture()'s catch block
ExceptionResult(message) ==
  LET errorDetails == errorDetailsFromException(message)
  IN [status |-> IF errorDetails.type = "timeout" THEN "timeout" ELSE "failed",
      error |-> <<>>, errorDetails |-> errorDetails, synthetic |-> FALSE]

\* messages of the exceptions raised inside a capture
CaptureExceptionMessages ==
  { <<"Timeout", "Navigation">>, <<"Target", "closed">>, <<"net", "ERR">> }

\* messages of the exceptions that escape the capturer
EscapedExceptionMessages == { <<"Target", "closed">>, <<"Unexpected", "error">> }

CaptureOutcomes ==
  { [kind |-> "return", result |-> SuccessResult, message |-> <<>>],
    [kind |-> "return", result |-> HttpErrorResult, message |-> <<>>] }
  \cup { [kind |-> "return", result |-> ExceptionResult(m), message |-> <<>>] :
           m \in CaptureExceptionMessages }
  \cup { [kind |-> "throw", result |-> NoResult, message |-> m] :
           m \in EscapedExceptionMessages }

\* ------------------------------------------------------------------------
\* worker.ts: a worker value is
\*   [browser, status, processedCount, errorCount, errorHistory]
\* browser = TRUE is a session held (this.browser !== null)
\* ------------------------------------------------------------------------
NewWorker == [browser |-> FALSE, status |-> "stopped", processedCount |-> 0,
              errorCount |-> 0, errorHistory |-> <<>>]

\* the session and status of a worker value, and its counters and history
Control(wk) == [browser |-> wk.browser, status |-> wk.status]

Statistics(wk) == [processedCount |-> wk.processedCount, errorCount |-> wk.errorCount,
                   errorHistory |-> wk.errorHistory]

JoinWorker(c, st) ==
  [browser |-> c.browser, status |-> c.status, processedCount |-> st.processedCount,
   errorCount |-> st.errorCount, errorHistory |-> st.errorHistory]

\* addError that pushes the record behind the others and drops the first
addErrorPush(wk, message, taskId) ==
  LET pushed == Append(wk.errorHistory, [message |-> message, taskId |-> taskId])
  IN [wk EXCEPT !.errorHistory =
        IF Len(pushed) > MAX_ERROR_HISTORY THEN Tail(pushed) ELSE pushed]

\* addError that never drops a record
addErrorNoCap(wk, message, taskId) ==
  [wk EXCEPT !.errorHistory = <<[message |-> message, taskId |-> taskId]>> \o @]

addError(wk, message, taskId) ==
  LET unshifted == <<[message |-> message, taskId |-> taskId]>> \o wk.errorHistory
  IN [wk EXCEPT !.errorHistory =
        IF Len(unshifted) > MAX_ERROR_HISTORY
          THEN SubSeq(unshifted, 1, Len(unshifted) - 1)
          ELSE unshifted]

\* connect, once connectBrowser has settled (ok) or rejected with message
connect(wk, ok, message) ==
  IF ok
    THEN [wk EXCEPT !.browser = TRUE, !.status = transitionTo(wk.status, "idle").status]
    ELSE LET errored == [wk EXCEPT !.status = transitionTo(wk.status, "error").status]
             recorded == addError(errored, message, 0)
         IN [recorded EXCEPT !.errorCount = recorded.errorCount + 1]

\* disconnect that sets the status only when there was a session to close
disconnectSessionOnly(wk) ==
  IF wk.browser
    THEN [wk EXCEPT !.browser = FALSE, !.status = transitionTo(wk.status, "stopped").status]
    ELSE wk

\* disconnect that drops the session and leaves the status as it is
disconnectKeepsStatus(wk) == [wk EXCEPT !.browser = FALSE]

\* disconnect, after browser.disconnect() has settled (or at once without a session)
disconnect(wk) ==
  [wk EXCEPT !.browser = FALSE, !.status = transitionTo(wk.status, "stopped").status]

\* isHealthy that looks at the session only
isHealthyBrowserOnly(wk) == wk.browser

isHealthy(wk) == wk.browser /\ isHealthyStatus(wk.status)

\* process that counts an error when it finds the worker unavailable
processBeginCountsError(wk) ==
  IF ~wk.browser \/ ~canProcess(wk.status)
    THEN [worker |-> [wk EXCEPT !.errorCount = @ + 1], capturing |-> FALSE,
          result |-> [status |-> "failed", error |-> <<"Worker is not available">>,
                      errorDetails |-> NoErrorDetails, synthetic |-> TRUE]]
    ELSE [worker |-> [wk EXCEPT !.status = transitionTo(wk.status, "busy").status],
          capturing |-> TRUE, result |-> NoResult]

\* process that starts the capture without marking the worker busy
processBeginStaysIdle(wk) ==
  IF ~wk.browser \/ ~canProcess(wk.status)
    THEN [worker |-> wk, capturing |-> FALSE,
          result |-> [status |-> "failed", error |-> <<"Worker is not available">>,
                      errorDetails |-> NoErrorDetails, synthetic |-> TRUE]]
    ELSE [worker |-> wk, capturing |-> TRUE, result |-> NoResult]

\* process up to its first await: the synthetic result, or busy and capturing
processBegin(wk) ==
  IF ~wk.browser \/ ~canProcess(wk.status)
    THEN [worker |-> wk, capturing |-> FALSE,
          result |-> [status |-> "failed", error |-> <<"Worker is not available">>,
                      errorDetails |-> NoErrorDetails, synthetic |-> TRUE]]
    ELSE [worker |-> [wk EXCEPT !.status = transitionTo(wk.status, "busy").status],
          capturing |-> TRUE, result |-> NoResult]

\* a finally block that leaves the status alone
processFinallySkipped(wk) == wk

\* the finally block of process
processFinally(wk) ==
  IF wk.status = "busy"
    THEN [wk EXCEPT !.status = transitionTo(wk.status, "idle").status]
    ELSE wk

\* process that goes back to idle in its catch block only, not in a finally
processSettleStaysBusy(wk, task, outcome) ==
  IF outcome.kind = "return"
    THEN LET result == outcome.result
             counted == [wk EXCEPT !.processedCount = wk.processedCount + 1]
             recorded ==
               IF ~isSuccessStatus(result.status)
                 THEN addError([counted EXCEPT !.errorCount = counted.errorCount + 1],
                               IF result.error # <<>> THEN result.error
                                                      ELSE <<"Unknown error">>,
                               task.taskId)
                 ELSE counted
         IN [worker |-> recorded, result |-> result]
    ELSE LET errorMessage == outcome.message
             recorded == addError([wk EXCEPT !.errorCount = wk.errorCount + 1],
                                  errorMessage, task.taskId)
             errored ==
               IF Includes(errorMessage, "disconnect") \/ Includes(errorMessage, "closed")
                 THEN [recorded EXCEPT !.status = transitionTo(recorded.status, "error").status]
                 ELSE recorded
         IN [worker |-> processFinally(errored),
             result |-> [status |-> "failed", error |-> errorMessage,
                         errorDetails |-> NoErrorDetails, synthetic |-> FALSE]]

\* process from the settling of capture() to its return
processSettle(wk, task, outcome) ==
  IF outcome.kind = "return"
    THEN LET result == outcome.result
             counted == [wk EXCEPT !.processedCount = wk.processedCount + 1]
             recorded ==
               IF ~isSuccessStatus(result.status)
                 THEN addError([counted EXCEPT !.errorCount = counted.errorCount + 1],
                               IF result.error # <<>> THEN result.error
                                                      ELSE <<"Unknown error">>,
                               task.taskId)
                 ELSE counted
         IN [worker |-> processFinally(recorded), result |-> result]
    ELSE LET errorMessage == outcome.message
             recorded == addError([wk EXCEPT !.errorCount = wk.errorCount + 1],
                                  errorMessage, task.taskId)
             errored ==
               IF Includes(errorMessage, "disconnect") \/ Includes(errorMessage, "closed")
                 THEN [recorded EXCEPT !.status = transitionTo(recorded.status, "error").status]
                 ELSE recorded
         IN [worker |-> processFinally(errored),
             result |-> [status |-> "failed", error |-> errorMessage,
                         errorDetails |-> NoErrorDetails, synthetic |-> FALSE]]

\* ------------------------------------------------------------------------
\* page-capturer.ts: generateFilename, withTimeout, PageCapturer.capture.
\* A promise settles as [kind, message, response]: kind "value" (response is
\* what page.goto resolves with), "error" (message), or, for the race of
\* withTimeout, "timer" when its timer fires before the promise settles.
\* A capture is [pc, task, page, artifact, ext, timerPending, httpStatusCode,
\* rendered, written, pngPath, jpegPath, htmlPath, result]: pc is the await
\* it stands at, rendered the page.screenshot / page.content calls made,
\* written the files writeFile was called for, <<>> an absent path.
\* ------------------------------------------------------------------------
\* Array.prototype.join, of strings
RECURSIVE Join(_, _)
Join(parts, separator) ==
  IF parts = <<>> THEN <<>>
  ELSE IF Len(parts) = 1 THEN parts[1]
  ELSE parts[1] \o <<separator>> \o Join(Tail(parts), separator)

\* the filename that puts the labels before the correlationId
generateFilenameLabelsFirst(task, extension) ==
  LET parts == <<task.taskId>>
               \o (IF Len(task.labels) > 0 THEN <<Join(task.labels, "-")>> ELSE <<>>)
               \o (IF task.correlationId # <<>> THEN <<task.correlationId>> ELSE <<>>)
  IN Join(parts, "_") \o <<".">> \o extension

generateFilename(task, extension) ==
  LET parts == <<task.taskId>>
               \o (IF task.correlationId # <<>> THEN <<task.correlationId>> ELSE <<>>)
               \o (IF Len(task.labels) > 0 THEN <<Join(task.labels, "-")>> ELSE <<>>)
  IN Join(parts, "_") \o <<".">> \o extension

\* the status test that takes 300 for a success
isSuccessHttpStatusUpTo300(statusCode) == statusCode >= 200 /\ statusCode <= 300

isSuccessHttpStatus(statusCode) == statusCode >= 200 /\ statusCode < 300

\* withTimeout that clears its timer only when the promise resolved
withTimeoutKeepsTimerOnError(first, timeoutMs, message) ==
  LET raced == IF first.kind = "timer"
                 THEN [kind |-> "error", response |-> first.response,
                       message |-> <<"Timeout", ":", message, "(", timeoutMs, "ms)">>]
                 ELSE first
      clearedInTry == raced.kind = "value"
  IN [outcome |-> raced, timerPending |-> first.kind # "timer" /\ ~clearedInTry]

\* withTimeout: what it settles with, given what finishes first, and whether
\* its timer is still pending when it settles
withTimeout(first, timeoutMs, message) ==
  LET raced == IF first.kind = "timer"
                 THEN [kind |-> "error", response |-> first.response,
                       message |-> <<"Timeout", ":", message, "(", timeoutMs, "ms)">>]
                 ELSE first
      clearedInTry == raced.kind = "value"
      clearedInCatch == raced.kind = "error"
  IN [outcome |-> raced,
      timerPending |-> first.kind # "timer" /\ ~(clearedInTry \/ clearedInCatch)]

\* config.outputDir and config.timeouts, the milliseconds as they are printed
CaptureConfig ==
  [outputDir |-> <<"o", "u", "t">>, timeouts |-> [pageLoad |-> "30000", capture |-> "10000"]]

NoCaptureResult ==
  [status |-> "none", httpStatusCode |-> -1, errorDetails |-> NoErrorDetails,
   pngPath |-> <<>>, jpegPath |-> <<>>, htmlPath |-> <<>>]

\* a finally block that awaits no page.close()
captureFinallyNoClose(c) == [c EXCEPT !.pc = "returned"]

\* the finally block of capture up to its await
captureFinally(c) ==
  IF c.page = "open" THEN [c EXCEPT !.pc = "close"] ELSE [c EXCEPT !.pc = "returned"]

\* a catch block that reports the paths of the artifacts already written
captureCatchKeepsPaths(c, message) ==
  LET errorDetails == errorDetailsFromException(message)
  IN captureFinally([c EXCEPT !.result =
       [status |-> IF errorDetails.type = "timeout" THEN "timeout" ELSE "failed",
        httpStatusCode |-> -1, errorDetails |-> errorDetails,
        pngPath |-> c.pngPath, jpegPath |-> c.jpegPath, htmlPath |-> c.htmlPath]])

\* the catch block of capture
captureCatch(c, message) ==
  LET errorDetails == errorDetailsFromException(message)
  IN captureFinally([c EXCEPT !.result =
       [status |-> IF errorDetails.type = "timeout" THEN "timeout" ELSE "failed",
        httpStatusCode |-> -1, errorDetails |-> errorDetails,
        pngPath |-> <<>>, jpegPath |-> <<>>, htmlPath |-> <<>>]])

\* the artifacts taken html first
nextArtifactHtmlFirst(captureOptions, from) ==
  LET order == <<"html", "png", "jpeg">>
      requested == {i \in from..3 : captureOptions[order[i]]}
  IN IF requested = {} THEN [index |-> 0, type |-> "none"]
     ELSE LET i == CHOOSE j \in requested : \A k \in requested : j <= k
          IN [index |-> i, type |-> order[i]]

\* the three tests of captureOptions in capture: the first artifact requested,
\* from the from-th test on
nextArtifact(captureOptions, from) ==
  LET order == <<"png", "jpeg", "html">>
      requested == {i \in from..3 : captureOptions[order[i]]}
  IN IF requested = {} THEN [index |-> 0, type |-> "none"]
     ELSE LET i == CHOOSE j \in requested : \A k \in requested : j <= k
          IN [index |-> i, type |-> order[i]]

\* capture(browser, task, workerId) before its first await
captureCall(task) ==
  [pc |-> "newPage", task |-> task, page |-> "none", artifact |-> 0, ext |-> "none",
   timerPending |-> FALSE, httpStatusCode |-> -1, rendered |-> <<>>, written |-> <<>>,
   pngPath |-> <<>>, jpegPath |-> <<>>, htmlPath |-> <<>>, result |-> NoCaptureResult]

\* capture from the settling of the promise it awaits to its next await or
\* its return
capture(c, settled, config) ==
  LET filePath == config.outputDir \o <<"/">> \o generateFilename(c.task, <<c.ext>>)
      artifacts(d, from) ==
        LET n == nextArtifact(d.task.captureOptions, from)
        IN IF n.type = "none"
             THEN captureFinally([d EXCEPT !.result =
                    [status |-> "success", httpStatusCode |-> d.httpStatusCode,
                     errorDetails |-> NoErrorDetails, pngPath |-> d.pngPath,
                     jpegPath |-> d.jpegPath, htmlPath |-> d.htmlPath]])
             ELSE [d EXCEPT !.pc = "render", !.artifact = n.index, !.ext = n.type,
                            !.timerPending = TRUE, !.rendered = Append(@, n.type)]
  IN CASE c.pc = "newPage" ->
            IF settled.kind = "value" THEN [c EXCEPT !.page = "open", !.pc = "configure"]
            ELSE captureCatch(c, settled.message)
       [] c.pc = "configure" ->
            IF settled.kind = "value" THEN [c EXCEPT !.pc = "goto", !.timerPending = TRUE]
            ELSE captureCatch(c, settled.message)
       [] c.pc = "goto" ->
            LET w == withTimeout(settled, config.timeouts.pageLoad, "Navigation")
                d == [c EXCEPT !.timerPending = w.timerPending]
                response == w.outcome.response
                httpStatusCode == IF response.present THEN response.status ELSE 0
            IN IF w.outcome.kind = "error" THEN captureCatch(d, w.outcome.message)
               ELSE IF ~isSuccessHttpStatus(httpStatusCode)
                 THEN captureFinally([d EXCEPT
                        !.httpStatusCode = httpStatusCode,
                        !.result = [status |-> "httpError",
                                    httpStatusCode |-> httpStatusCode,
                                    errorDetails |-> [type |-> "http", message |-> <<"HTTP">>],
                                    pngPath |-> <<>>, jpegPath |-> <<>>, htmlPath |-> <<>>]])
                 ELSE [d EXCEPT !.httpStatusCode = httpStatusCode, !.pc = "prepare"]
       [] c.pc = "prepare" ->
            IF settled.kind = "value" THEN artifacts(c, 1)
            ELSE captureCatch(c, settled.message)
       [] c.pc = "render" ->
            LET w == withTimeout(settled, config.timeouts.capture, "capture")
                d == [c EXCEPT !.timerPending = w.timerPending]
            IN IF w.outcome.kind = "error" THEN captureCatch(d, w.outcome.message)
               ELSE [d EXCEPT !.pc = "write", !.written = Append(@, filePath)]
       [] c.pc = "write" ->
            IF settled.kind = "value"
              THEN artifacts([c EXCEPT !.pngPath = IF c.ext = "png" THEN filePath ELSE @,
                                       !.jpegPath = IF c.ext = "jpeg" THEN filePath ELSE @,
                                       !.htmlPath = IF c.ext = "html" THEN filePath ELSE @],
                             c.artifact + 1)
              ELSE captureCatch(c, settled.message)
       [] c.pc = "close" ->
            [c EXCEPT !.page = IF settled.kind = "value" THEN "closed" ELSE "closeFailed",
                      !.pc = "returned"]

\* ------------------------------------------------------------------------
\* State
\* ------------------------------------------------------------------------
VARIABLES
  config,              \* WorkerConfig.capture: [maxRetries, rejectDuplicateUrls]
  workers,             \* each Worker's session and status: [browser, status]
  stats,               \* each Worker's [processedCount, errorCount, errorHistory]
  followStats,         \* whether the specification follows stats
  startCalls,          \* history: number of start() calls so far
  spawned,             \* history: number of workerLoop() calls per worker
  taskQueue,           \* WorkerPool.taskQueue
  running,             \* WorkerPool.running
  workerLoopPromises,  \* the workers start() spawned a dispatch loop for
  loops,               \* each dispatch loop: [pc, task, result]
  initPc,              \* initialize(): "connecting", "initialized" or "failed"
  connected,           \* the workers whose connect() has settled
  shutdownPc,          \* shutdown(): "none", "waitLoops", "disconnecting", "done"
  disconnecting,       \* the workers awaiting browser.disconnect()
  startThrew,          \* the last start() call threw "No healthy workers available"
  uuids,               \* number of randomUUID() calls so far
  request,             \* the request of the last submitCapture call
  response,            \* what the last submitCapture call passed to its callback
  accepted,            \* history: taskId -> url of every submission accepted
  attempts,            \* history: taskId -> number of Worker.process invocations
  dequeueCount,        \* history: <<taskId, retryCount>> -> number of dequeues
  manager,             \* a WorkerStatusManager on its own: [status, thrown, calls]
  unitQueue,           \* a TaskQueue on its own: [q, held, enqueued, returned, requeues]:
                       \* the queue, the tasks its caller holds, the URLs enqueued,
                       \* the taskIds dequeue() returned, the requeue() calls
  unitWorker,          \* a Worker on its own: [wk, pc, task, result, calls, others,
                       \* errors, returned, failures, thrown]: the worker, "idle" or
                       \* "capturing", the task of the capture in flight, the last
                       \* result, the process calls, the other calls, the taskIds
                       \* errors were raised for (0: connect), and the captures that
                       \* returned, returned a non-success, and threw
  unitCapture          \* a PageCapturer.capture call on its own: [c, events]: the
                       \* capture, and how each promise it awaited has settled

poolVars == <<config, workers, stats, followStats, startCalls, spawned, taskQueue,
              running, workerLoopPromises, loops, initPc, connected, shutdownPc,
              disconnecting, startThrew, uuids, request, response, accepted,
              attempts, dequeueCount>>

unitVars == <<manager, unitQueue, unitWorker, unitCapture>>

vars == <<poolVars, unitVars>>

frontVars == <<uuids, request, response, accepted>>

\* ------------------------------------------------------------------------
\* worker-pool.ts
\* ------------------------------------------------------------------------
\* this.workers is assigned when every connect() has settled
PoolWorkers == IF initPc = "connecting" THEN {} ELSE Workers

isRunning == running

Worker(w) == JoinWorker(workers[w], stats[w])

HealthyWorkers == {w \in PoolWorkers : isHealthy(Worker(w))}

healthyWorkerCount == Cardinality(HealthyWorkers)

\* the retry test with <= for <
shouldRetryInclusive(task, cfg) == task.retryCount <= cfg.maxRetries

shouldRetry(task, cfg) == task.retryCount < cfg.maxRetries

\* enqueueTask that enqueues before it looks for the URL
enqueueTaskThenCheck(q, cfg, task) ==
  IF cfg.rejectDuplicateUrls /\ hasUrl(q, task.url)
    THEN [success |-> FALSE, error |-> <<"URL already in queue: ", task.url>>,
          q |-> enqueue(q, task)]
    ELSE [success |-> TRUE, error |-> <<>>, q |-> enqueue(q, task)]

\* enqueueTask that never looks for the URL
enqueueTaskNoCheck(q, cfg, task) ==
  [success |-> TRUE, error |-> <<>>, q |-> enqueue(q, task)]

enqueueTask(q, cfg, task) ==
  IF cfg.rejectDuplicateUrls /\ hasUrl(q, task.url)
    THEN [success |-> FALSE, error |-> <<"URL already in queue: ", task.url>>, q |-> q]
    ELSE [success |-> TRUE, error |-> <<>>, q |-> enqueue(q, task)]

getStatus ==
  [queue |-> [pending |-> Len(taskQueue.queue),
              processing |-> Cardinality(taskQueue.processing),
              completed |-> Cardinality(taskQueue.completed)],
   healthyWorkers |-> Cardinality(HealthyWorkers),
   totalWorkers |-> Cardinality(PoolWorkers),
   isRunning |-> running,
   workers |-> [w \in PoolWorkers |-> Worker(w)]]

NoLoop == [pc |-> "none", task |-> NoTask, result |-> NoResult]

ExitedLoop == [pc |-> "exited", task |-> NoTask, result |-> NoResult]

SleepingLoop == [pc |-> "sleep", task |-> NoTask, result |-> NoResult]

Count(m, k) == IF k \in DOMAIN m THEN m[k] ELSE 0

\* a loop that dequeues before it tests running and the worker's health
LoopRunDequeuesFirst(w, m, run) ==
  LET d == dequeue(m.taskQueue)
  IN IF ~(run /\ isHealthy(m.workers[w]))
       THEN [m EXCEPT !.taskQueue = d.q, !.loops[w] = ExitedLoop]
     ELSE IF d.task = NoTask THEN [m EXCEPT !.loops[w] = SleepingLoop]
     ELSE LET p == processBegin(m.workers[w])
              key == <<d.task.taskId, d.task.retryCount>>
          IN [m EXCEPT
                !.taskQueue = d.q,
                !.workers[w] = p.worker,
                !.loops[w] = [pc |-> IF p.capturing THEN "capturing" ELSE "returned",
                              task |-> d.task, result |-> p.result],
                !.attempts = MapSet(m.attempts, d.task.taskId,
                                    Count(m.attempts, d.task.taskId) + 1),
                !.dequeueCount = MapSet(m.dequeueCount, key,
                                        Count(m.dequeueCount, key) + 1)]

\* The part of the state a dispatch loop works on is a record
\*   m = [taskQueue, workers, loops, attempts, dequeueCount]
\* whose workers are whole worker values.
\* workerLoop from the head of the while to the next await
LoopRun(w, m, run) ==
  IF ~(run /\ isHealthy(m.workers[w])) THEN [m EXCEPT !.loops[w] = ExitedLoop]
  ELSE LET d == dequeue(m.taskQueue)
       IN IF d.task = NoTask THEN [m EXCEPT !.loops[w] = SleepingLoop]
          ELSE LET p == processBegin(m.workers[w])
                   key == <<d.task.taskId, d.task.retryCount>>
               IN [m EXCEPT
                     !.taskQueue = d.q,
                     !.workers[w] = p.worker,
                     !.loops[w] = [pc |-> IF p.capturing THEN "capturing" ELSE "returned",
                                   task |-> d.task, result |-> p.result],
                     !.attempts = MapSet(m.attempts, d.task.taskId,
                                         Count(m.attempts, d.task.taskId) + 1),
                     !.dequeueCount = MapSet(m.dequeueCount, key,
                                             Count(m.dequeueCount, key) + 1)]

\* the handling that retries a capture that failed, and no other non-success
LoopHandleFailedOnly(w, m, run, cfg) ==
  LET task == m.loops[w].task
      result == m.loops[w].result
      workerInfo == m.workers[w]
      handled ==
        [m EXCEPT !.taskQueue =
           IF result.status = "failed" /\ shouldRetry(task, cfg)
             THEN requeue(m.taskQueue, task)
             ELSE markComplete(m.taskQueue, task.taskId)]
  IN IF ~isHealthyStatus(workerInfo.status)
       THEN [handled EXCEPT !.loops[w] = ExitedLoop]
       ELSE LoopRun(w, handled, run)

\* the handling that marks the task complete before it looks at the result
LoopHandleCompletesFirst(w, m, run, cfg) ==
  LET task == m.loops[w].task
      result == m.loops[w].result
      workerInfo == m.workers[w]
      completed == markComplete(m.taskQueue, task.taskId)
      handled ==
        [m EXCEPT !.taskQueue =
           IF ~isSuccessStatus(result.status) /\ shouldRetry(task, cfg)
             THEN requeue(completed, task)
             ELSE completed]
  IN IF ~isHealthyStatus(workerInfo.status)
       THEN [handled EXCEPT !.loops[w] = ExitedLoop]
       ELSE LoopRun(w, handled, run)

\* the handling that leaves the loop after every task
LoopHandleBreaksAlways(w, m, run, cfg) ==
  LET task == m.loops[w].task
      result == m.loops[w].result
      handled ==
        [m EXCEPT !.taskQueue =
           IF ~isSuccessStatus(result.status) /\ shouldRetry(task, cfg)
             THEN requeue(m.taskQueue, task)
             ELSE markComplete(m.taskQueue, task.taskId)]
  IN [handled EXCEPT !.loops[w] = ExitedLoop]

\* workerLoop from the return of worker.process to the next await
LoopHandle(w, m, run, cfg) ==
  LET task == m.loops[w].task
      result == m.loops[w].result
      workerInfo == m.workers[w]
      handled ==
        [m EXCEPT !.taskQueue =
           IF ~isSuccessStatus(result.status) /\ shouldRetry(task, cfg)
             THEN requeue(m.taskQueue, task)
             ELSE markComplete(m.taskQueue, task.taskId)]
  IN IF ~isHealthyStatus(workerInfo.status)
       THEN [handled EXCEPT !.loops[w] = ExitedLoop]
       ELSE LoopRun(w, handled, run)

\* start() spawning a loop for every worker of the pool, healthy or not
RECURSIVE StartLoopsAll(_, _, _)
StartLoopsAll(w, m, run) ==
  IF w > NumWorkers THEN m
  ELSE StartLoopsAll(w + 1, LoopRun(w, m, run), run)

\* start(): healthyWorkers.map((worker) => this.workerLoop(worker)); each call runs
\* its loop to the first await before the next one starts
RECURSIVE StartLoops(_, _, _)
StartLoops(w, m, run) ==
  IF w > NumWorkers THEN m
  ELSE IF w \in HealthyWorkers
    THEN StartLoops(w + 1, LoopRun(w, m, run), run)
    ELSE StartLoops(w + 1, m, run)

Mutable == [taskQueue |-> taskQueue, workers |-> [w \in Workers |-> Worker(w)],
            loops |-> loops, attempts |-> attempts, dequeueCount |-> dequeueCount]

\* Spec follows each worker's session and status; the counters and the error
\* history, which no decision of the pool or of the handlers reads, are
\* followed by SpecStats (followStats), which runs the same actions.
SetWorkers(ws) ==
  /\ workers' = [w \in Workers |-> Control(ws[w])]
  /\ stats' = IF followStats THEN [w \in Workers |-> Statistics(ws[w])] ELSE stats

Commit(m) ==
  /\ taskQueue' = m.taskQueue
  /\ SetWorkers(m.workers)
  /\ loops' = m.loops
  /\ attempts' = m.attempts
  /\ dequeueCount' = m.dequeueCount

\* Node runs a resumed continuation (a microtask) before the next timer, I/O
\* event or RPC, and a handler to its return: those wait while a continuation
\* is ready to run or submitCapture has not returned.
MicrotaskPending ==
  \/ \E w \in Workers : loops[w].pc = "returned"
  \/ initPc = "connecting" /\ connected = Workers
  \/ shutdownPc = "waitLoops" /\ \A w \in workerLoopPromises : loops[w].pc = "exited"
  \/ shutdownPc = "disconnecting" /\ disconnecting = {}
  \/ response.kind # "none"

\* ------------------------------------------------------------------------
\* handlers.ts: submitCapture
\* ------------------------------------------------------------------------
NoRequest == [url |-> <<>>, labels |-> <<>>, correlation_id |-> <<>>,
              capture_options |-> [defined |-> FALSE, png |-> FALSE, jpeg |-> FALSE,
                                   html |-> FALSE]]

NoResponse == [kind |-> "none", accepted |-> FALSE, task_id |-> 0, error |-> <<>>,
               correlation_id |-> <<>>]

\* callback(null, {accepted: false, task_id: "", error})
Rejection(error) == [kind |-> "reply", accepted |-> FALSE, task_id |-> 0, error |-> error,
                     correlation_id |-> <<>>]

\* callback({code: UNAVAILABLE, message})
Unavailable == [kind |-> "UNAVAILABLE", accepted |-> FALSE, task_id |-> 0,
                error |-> <<"No healthy workers available">>, correlation_id |-> <<>>]

\* callback(null, {accepted: true, task_id, correlation_id?})
Acceptance(taskId, correlationId) ==
  [kind |-> "reply", accepted |-> TRUE, task_id |-> taskId, error |-> <<>>,
   correlation_id |-> correlationId]

\* the handler with the labels and the correlation id checked before the options
submitCaptureLabelsFirst(req, poolRunning, healthyCount, q, cfg, uuid) ==
  IF req.url = <<>> \/ Trim(req.url) = <<>>
    THEN [response |-> Rejection(<<"url is required">>), q |-> q, generated |-> FALSE]
  ELSE
  LET trimmedLabels == TrimLabels(req.labels)
      labelsValidation == IF Len(trimmedLabels) > 0 THEN validateLabels(trimmedLabels)
                                                    ELSE Valid
  IN
  IF ~labelsValidation.valid
    THEN [response |-> Rejection(labelsValidation.error), q |-> q, generated |-> FALSE]
  ELSE
  LET correlationIdValidation ==
        IF req.correlation_id # <<>> THEN validateFilename(req.correlation_id) ELSE Valid
  IN
  IF ~correlationIdValidation.valid
    THEN [response |-> Rejection(correlationIdValidation.error), q |-> q,
          generated |-> FALSE]
  ELSE
  LET captureOptions == captureOptionsFromProto(req.capture_options)
      optionsValidation == validateCaptureOptions(captureOptions)
  IN
  IF ~optionsValidation.valid
    THEN [response |-> Rejection(optionsValidation.error), q |-> q, generated |-> FALSE]
  ELSE
  IF ~poolRunning \/ healthyCount = 0
    THEN [response |-> Unavailable, q |-> q, generated |-> FALSE]
  ELSE
  LET task == [taskId |-> uuid, labels |-> trimmedLabels, url |-> Trim(req.url),
               retryCount |-> 0, captureOptions |-> captureOptions,
               correlationId |-> req.correlation_id]
      enqueueResult == enqueueTask(q, cfg, task)
  IN
  IF ~enqueueResult.success
    THEN [response |-> Rejection(enqueueResult.error), q |-> enqueueResult.q,
          generated |-> TRUE]
    ELSE [response |-> Acceptance(uuid, req.correlation_id), q |-> enqueueResult.q,
          generated |-> TRUE]

\* The handler: what it passes to the callback, the queue afterwards, and
\* whether it called randomUUID (the id it then gets is uuid).
submitCapture(req, poolRunning, healthyCount, q, cfg, uuid) ==
  IF req.url = <<>> \/ Trim(req.url) = <<>>
    THEN [response |-> Rejection(<<"url is required">>), q |-> q, generated |-> FALSE]
  ELSE
  LET captureOptions == captureOptionsFromProto(req.capture_options)
      optionsValidation == validateCaptureOptions(captureOptions)
  IN
  IF ~optionsValidation.valid
    THEN [response |-> Rejection(optionsValidation.error), q |-> q, generated |-> FALSE]
  ELSE
  LET trimmedLabels == TrimLabels(req.labels)
      labelsValidation == IF Len(trimmedLabels) > 0 THEN validateLabels(trimmedLabels)
                                                    ELSE Valid
  IN
  IF ~labelsValidation.valid
    THEN [response |-> Rejection(labelsValidation.error), q |-> q, generated |-> FALSE]
  ELSE
  LET correlationIdValidation ==
        IF req.correlation_id # <<>> THEN validateFilename(req.correlation_id) ELSE Valid
  IN
  IF ~correlationIdValidation.valid
    THEN [response |-> Rejection(correlationIdValidation.error), q |-> q,
          generated |-> FALSE]
  ELSE
  IF ~poolRunning \/ healthyCount = 0
    THEN [response |-> Unavailable, q |-> q, generated |-> FALSE]
  ELSE
  LET task == [taskId |-> uuid, labels |-> trimmedLabels, url |-> Trim(req.url),
               retryCount |-> 0, captureOptions |-> captureOptions,
               correlationId |-> req.correlation_id]
      enqueueResult == enqueueTask(q, cfg, task)
  IN
  IF ~enqueueResult.success
    THEN [response |-> Rejection(enqueueResult.error), q |-> enqueueResult.q,
          generated |-> TRUE]
    ELSE [response |-> Acceptance(uuid, req.correlation_id), q |-> enqueueResult.q,
          generated |-> TRUE]

\* ------------------------------------------------------------------------
\* The requests and failures the environment can produce
\* ------------------------------------------------------------------------
RequestUrls == { <<" ">>, <<"a">>, <<" ", "b">> }

RequestLabels == { << <<"x">> >>, << <<"y", "_">> >> }

RequestCorrelationIds == { <<>>, <<"c", "?">> }

RequestCaptureOptions ==
  { [defined |-> FALSE, png |-> FALSE, jpeg |-> FALSE, html |-> FALSE],
    [defined |-> TRUE, png |-> FALSE, jpeg |-> FALSE, html |-> FALSE],
    [defined |-> TRUE, png |-> TRUE, jpeg |-> FALSE, html |-> FALSE] }

Requests == [url : RequestUrls, labels : RequestLabels,
             correlation_id : RequestCorrelationIds,
             capture_options : RequestCaptureOptions]

ConnectFailure == <<"connect", "ECONNREFUSED">>

\* ------------------------------------------------------------------------
\* Initial state: a constructed pool, initialize() called, nothing connected
\* ------------------------------------------------------------------------
InitPool(follow, configs) ==
  /\ followStats = follow
  /\ startCalls = 0
  /\ spawned = [w \in Workers |-> 0]
  /\ config \in configs
  /\ workers = [w \in Workers |-> Control(NewWorker)]
  /\ stats = [w \in Workers |-> Statistics(NewWorker)]
  /\ taskQueue = EmptyQueue
  /\ running = FALSE
  /\ workerLoopPromises = {}
  /\ loops = [w \in Workers |-> NoLoop]
  /\ initPc = "connecting"
  /\ connected = {}
  /\ shutdownPc = "none"
  /\ disconnecting = {}
  /\ startThrew = FALSE
  /\ uuids = 0
  /\ request = NoRequest
  /\ response = NoResponse
  /\ accepted = <<>>
  /\ attempts = <<>>
  /\ dequeueCount = <<>>

\* the configurations: every maxRetries up to the bound, duplicates rejected or not
Configs == [maxRetries : 0..MaxRetriesCfg, rejectDuplicateUrls : BOOLEAN]

\* the configuration of the defaults: retries on, duplicate URLs accepted
DefaultConfig == [maxRetries |-> MaxRetriesCfg, rejectDuplicateUrls |-> FALSE]

\* new WorkerStatusManager(initialStatus)
NewManager(initialStatus) == [status |-> initialStatus, thrown |-> <<>>, calls |-> <<>>]

\* the units outside the pool specifications: a manager built with the default
InitUnits ==
  /\ manager = NewManager("stopped")
  /\ unitQueue = [q |-> EmptyQueue, held |-> <<>>, enqueued |-> <<>>, returned |-> <<>>,
                  requeues |-> 0]
  /\ unitWorker = [wk |-> NewWorker, pc |-> "idle", task |-> NoTask, result |-> NoResult,
                   calls |-> 0, others |-> 0, errors |-> <<>>,
                   returned |-> 0, failures |-> 0, thrown |-> 0]
  /\ unitCapture = [c |-> [captureCall(NoTask) EXCEPT !.pc = "none"], events |-> <<>>]

Init == InitPool(FALSE, Configs) /\ InitUnits

InitStats == InitPool(TRUE, Configs) /\ InitUnits

InitDefault == InitPool(FALSE, {DefaultConfig}) /\ InitUnits

\* ------------------------------------------------------------------------
\* Actions
\* ------------------------------------------------------------------------
\* initialize(): one worker's connect() settles
Connect(w, ok) ==
  /\ ~MicrotaskPending
  /\ initPc = "connecting"
  /\ w \notin connected
  /\ SetWorkers([Mutable.workers EXCEPT ![w] = connect(Worker(w), ok, ConnectFailure)])
  /\ connected' = connected \cup {w}
  /\ UNCHANGED <<unitVars, followStats, startCalls, spawned, config, taskQueue, running, workerLoopPromises, loops, initPc,
                 shutdownPc, disconnecting, startThrew, attempts, dequeueCount>>
  /\ UNCHANGED frontVars

\* initialize(): Promise.all resolved, this.workers assigned, healthy count checked
InitializeDone ==
  /\ initPc = "connecting"
  /\ connected = Workers
  /\ initPc' = IF {w \in Workers : isHealthy(Worker(w))} = {} THEN "failed"
                                                               ELSE "initialized"
  /\ UNCHANGED <<unitVars, followStats, startCalls, spawned, config, workers, stats, taskQueue, running, workerLoopPromises, loops,
                 connected, shutdownPc, disconnecting, startThrew, attempts,
                 dequeueCount>>
  /\ UNCHANGED frontVars

\* start() without the test of this.running
StartUnguarded ==
  /\ ~MicrotaskPending
  /\ initPc # "connecting"
  /\ shutdownPc = "none"
  /\ startCalls < MaxStartCalls
  /\ startCalls' = startCalls + 1
  /\ running' = TRUE
  /\ IF HealthyWorkers = {}
       THEN /\ startThrew' = TRUE
            /\ UNCHANGED <<workerLoopPromises, taskQueue, workers, stats, loops,
                           attempts, dequeueCount, spawned>>
       ELSE /\ startThrew' = FALSE
            /\ workerLoopPromises' = HealthyWorkers
            /\ spawned' = [w \in Workers |->
                             spawned[w] + IF w \in HealthyWorkers THEN 1 ELSE 0]
            /\ Commit(StartLoops(1, Mutable, TRUE))
  /\ UNCHANGED <<unitVars, followStats, config, initPc, connected, shutdownPc, disconnecting>>
  /\ UNCHANGED frontVars

\* start()
Start ==
  /\ ~MicrotaskPending
  /\ initPc # "connecting"
  /\ shutdownPc = "none"
  /\ startCalls < MaxStartCalls
  /\ startCalls' = startCalls + 1
  /\ IF running
       THEN UNCHANGED <<running, workerLoopPromises, startThrew, taskQueue, workers,
                        stats, loops, attempts, dequeueCount, spawned>>
       ELSE /\ running' = TRUE
            /\ IF HealthyWorkers = {}
                 THEN /\ startThrew' = TRUE
                      /\ UNCHANGED <<workerLoopPromises, taskQueue, workers, stats,
                                     loops, attempts, dequeueCount, spawned>>
                 ELSE /\ startThrew' = FALSE
                      /\ workerLoopPromises' = HealthyWorkers
                      /\ spawned' = [w \in Workers |->
                                       spawned[w] + IF w \in HealthyWorkers THEN 1 ELSE 0]
                      /\ Commit(StartLoops(1, Mutable, TRUE))
  /\ UNCHANGED <<unitVars, followStats, config, initPc, connected, shutdownPc, disconnecting>>
  /\ UNCHANGED frontVars

\* a sleeping loop's poll timer fires
LoopWake(w) ==
  /\ ~MicrotaskPending
  /\ loops[w].pc = "sleep"
  /\ Commit(LoopRun(w, Mutable, running))
  /\ UNCHANGED <<unitVars, followStats, startCalls, spawned, config, running, workerLoopPromises, initPc, connected, shutdownPc,
                 disconnecting, startThrew>>
  /\ UNCHANGED frontVars

\* the capture a worker is awaiting settles; Worker.process returns
CaptureSettles(w, outcome) ==
  /\ ~MicrotaskPending
  /\ loops[w].pc = "capturing"
  /\ LET p == processSettle(Worker(w), loops[w].task, outcome)
     IN /\ SetWorkers([Mutable.workers EXCEPT ![w] = p.worker])
        /\ loops' = [loops EXCEPT ![w] = [pc |-> "returned", task |-> loops[w].task,
                                           result |-> p.result]]
  /\ UNCHANGED <<unitVars, followStats, startCalls, spawned, config, taskQueue, running, workerLoopPromises, initPc, connected,
                 shutdownPc, disconnecting, startThrew, attempts, dequeueCount>>
  /\ UNCHANGED frontVars

\* the loop resumes with the result of worker.process
LoopContinue(w) ==
  /\ loops[w].pc = "returned"
  /\ Commit(LoopHandle(w, Mutable, running, config))
  /\ UNCHANGED <<unitVars, followStats, startCalls, spawned, config, running, workerLoopPromises, initPc, connected, shutdownPc,
                 disconnecting, startThrew>>
  /\ UNCHANGED frontVars

\* shutdown() up to its first await
Shutdown ==
  /\ ~MicrotaskPending
  /\ initPc # "connecting"
  /\ shutdownPc = "none"
  /\ running' = FALSE
  /\ shutdownPc' = "waitLoops"
  /\ UNCHANGED <<unitVars, followStats, startCalls, spawned, config, workers, stats, taskQueue, workerLoopPromises, loops, initPc,
                 connected, disconnecting, startThrew, attempts, dequeueCount>>
  /\ UNCHANGED frontVars

\* shutdown() that calls disconnect() without awaiting the loop promises
ShutdownDisconnectNoWait ==
  /\ shutdownPc = "waitLoops"
  /\ shutdownPc' = "disconnecting"
  /\ disconnecting' = {w \in PoolWorkers : workers[w].browser}
  /\ SetWorkers([w \in Workers |->
                   IF w \in PoolWorkers /\ ~workers[w].browser
                     THEN disconnect(Worker(w)) ELSE Worker(w)])
  /\ UNCHANGED <<unitVars, followStats, startCalls, spawned, config, taskQueue, running, workerLoopPromises, loops, initPc,
                 connected, startThrew, attempts, dequeueCount>>
  /\ UNCHANGED frontVars

\* shutdown(): every loop promise has resolved; disconnect() is called on every
\* worker and runs to its await (a worker without a session is stopped at once)
ShutdownDisconnect ==
  /\ shutdownPc = "waitLoops"
  /\ \A w \in workerLoopPromises : loops[w].pc = "exited"
  /\ shutdownPc' = "disconnecting"
  /\ disconnecting' = {w \in PoolWorkers : workers[w].browser}
  /\ SetWorkers([w \in Workers |->
                   IF w \in PoolWorkers /\ ~workers[w].browser
                     THEN disconnect(Worker(w)) ELSE Worker(w)])
  /\ UNCHANGED <<unitVars, followStats, startCalls, spawned, config, taskQueue, running, workerLoopPromises, loops, initPc,
                 connected, startThrew, attempts, dequeueCount>>
  /\ UNCHANGED frontVars

\* browser.disconnect() of one worker settles
DisconnectSettles(w) ==
  /\ ~MicrotaskPending
  /\ w \in disconnecting
  /\ SetWorkers([Mutable.workers EXCEPT ![w] = disconnect(Worker(w))])
  /\ disconnecting' = disconnecting \ {w}
  /\ UNCHANGED <<unitVars, followStats, startCalls, spawned, config, taskQueue, running, workerLoopPromises, loops, initPc,
                 connected, shutdownPc, startThrew, attempts, dequeueCount>>
  /\ UNCHANGED frontVars

\* shutdown() returns
ShutdownDone ==
  /\ shutdownPc = "disconnecting"
  /\ disconnecting = {}
  /\ shutdownPc' = "done"
  /\ UNCHANGED <<unitVars, followStats, startCalls, spawned, config, workers, stats, taskQueue, running, workerLoopPromises, loops,
                 initPc, connected, disconnecting, startThrew, attempts, dequeueCount>>
  /\ UNCHANGED frontVars

\* a SubmitCapture RPC
SubmitCapture(req) ==
  /\ ~MicrotaskPending
  /\ initPc # "connecting"
  /\ uuids < MaxSubmissions
  /\ LET r == submitCapture(req, isRunning, healthyWorkerCount, taskQueue, config,
                            uuids + 1)
     IN /\ response' = r.response
        /\ taskQueue' = r.q
        /\ uuids' = IF r.generated THEN uuids + 1 ELSE uuids
        /\ accepted' = IF r.response.accepted
                         THEN MapSet(accepted, r.response.task_id, Trim(req.url))
                         ELSE accepted
  /\ request' = req
  /\ UNCHANGED <<unitVars, followStats, startCalls, spawned, config, workers, stats, running, workerLoopPromises, loops, initPc,
                 connected, shutdownPc, disconnecting, startThrew, attempts,
                 dequeueCount>>

\* the handler returns after its callback: the call's request and the answer
\* passed to the callback go out of scope
SubmitCaptureReturn ==
  /\ response.kind # "none"
  /\ request' = NoRequest
  /\ response' = NoResponse
  /\ UNCHANGED <<unitVars, followStats, startCalls, spawned, config, workers, stats, taskQueue, running, workerLoopPromises, loops,
                 initPc, connected, shutdownPc, disconnecting, startThrew, attempts,
                 dequeueCount, uuids, accepted>>

Next ==
  \/ \E w \in Workers, ok \in BOOLEAN : Connect(w, ok)
  \/ InitializeDone
  \/ Start
  \/ \E w \in Workers : LoopWake(w)
  \/ \E w \in Workers, outcome \in CaptureOutcomes : CaptureSettles(w, outcome)
  \/ \E w \in Workers : LoopContinue(w)
  \/ Shutdown
  \/ ShutdownDisconnect
  \/ \E w \in Workers : DisconnectSettles(w)
  \/ ShutdownDone
  \/ \E req \in Requests : SubmitCapture(req)
  \/ SubmitCaptureReturn

Spec == Init /\ [][Next]_vars

\* a continuation that is ready runs, a handler that was entered returns
Continuation ==
  \/ InitializeDone
  \/ SubmitCaptureReturn
  \/ ShutdownDisconnect
  \/ ShutdownDone
  \/ \E w \in Workers : LoopContinue(w)

\* the timer and I/O events of one worker; at most one of them is due at a time
WorkerEvent(w) ==
  \/ LoopWake(w)
  \/ \E outcome \in CaptureOutcomes : CaptureSettles(w, outcome)
  \/ DisconnectSettles(w)

\* The scheduling Node guarantees: ready continuations run before anything
\* else (weak fairness), and the event loop serves every timer and I/O event
\* that is due, however many RPCs arrive in between (strong fairness). The
\* environment is assumed to settle every capture and every
\* browser.disconnect().
Fairness ==
  /\ WF_vars(Continuation)
  /\ \A w \in Workers : SF_vars(WorkerEvent(w))

\* the pool under its default configuration, with the scheduling stated
FairSpec == InitDefault /\ [][Next]_vars /\ Fairness

SpecStats == InitStats /\ [][Next]_vars

\* ------------------------------------------------------------------------
\* A WorkerStatusManager on its own (worker-status-manager.ts)
\* ------------------------------------------------------------------------
InvalidTransition(from, to) == <<"Invalid status transition:", from, "->", to>>

\* every initial status the constructor accepts
InitManager ==
  /\ InitPool(FALSE, {DefaultConfig})
  /\ manager \in {NewManager(s) : s \in ALL_WORKER_STATUSES}
  /\ unitQueue = [q |-> EmptyQueue, held |-> <<>>, enqueued |-> <<>>, returned |-> <<>>,
                  requeues |-> 0]
  /\ unitWorker = [wk |-> NewWorker, pc |-> "idle", task |-> NoTask, result |-> NoResult,
                   calls |-> 0, others |-> 0, errors |-> <<>>,
                   returned |-> 0, failures |-> 0, thrown |-> 0]
  /\ unitCapture = [c |-> [captureCall(NoTask) EXCEPT !.pc = "none"], events |-> <<>>]

\* manager.transitionTo(next)
TransitionTo(next) ==
  /\ Len(manager.calls) < MaxTransitions
  /\ LET r == transitionTo(manager.status, next) IN
       manager' = [status |-> r.status,
                   thrown |-> IF r.threw THEN InvalidTransition(manager.status, next)
                              ELSE <<>>,
                   calls  |-> Append(manager.calls, next)]
  /\ UNCHANGED <<poolVars, unitQueue, unitWorker, unitCapture>>

NextManager == \E next \in ALL_WORKER_STATUSES : TransitionTo(next)

SpecManager == InitManager /\ [][NextManager]_vars

\* ------------------------------------------------------------------------
\* A TaskQueue on its own (worker.ts), its caller holding the tasks dequeued
\* ------------------------------------------------------------------------
QueueUrls == { <<"a">>, <<"b">> }

\* the n-th task enqueued
QueueTask(n, url) ==
  [NoTask EXCEPT !.taskId = n, !.url = url, !.labels = << <<"Task", n>> >>,
                 !.captureOptions = [png |-> TRUE, jpeg |-> FALSE, html |-> TRUE],
                 !.correlationId = IF n % 2 = 0 THEN <<"c">> ELSE <<>>]

\* queue.enqueue(task)
Enqueue(url) ==
  /\ Len(unitQueue.enqueued) < MaxEnqueued
  /\ unitQueue' = [unitQueue EXCEPT
                     !.q = enqueue(@, QueueTask(Len(unitQueue.enqueued) + 1, url)),
                     !.enqueued = Append(@, url)]
  /\ UNCHANGED <<poolVars, manager, unitWorker, unitCapture>>

\* queue.enqueueAll([task, task])
EnqueueAll(url1, url2) ==
  /\ Len(unitQueue.enqueued) + 2 <= MaxEnqueued
  /\ unitQueue' = [unitQueue EXCEPT
                     !.q = enqueueAll(@, << QueueTask(Len(unitQueue.enqueued) + 1, url1),
                                            QueueTask(Len(unitQueue.enqueued) + 2, url2) >>),
                     !.enqueued = @ \o <<url1, url2>>]
  /\ UNCHANGED <<poolVars, manager, unitWorker, unitCapture>>

\* queue.dequeue()
Dequeue ==
  /\ Len(unitQueue.returned) < MaxDequeues
  /\ LET d == dequeue(unitQueue.q) IN
       unitQueue' = [unitQueue EXCEPT
                       !.q = d.q,
                       !.held = IF d.task = NoTask THEN @
                                ELSE MapSet(@, d.task.taskId, d.task),
                       !.returned = Append(@, d.task.taskId)]
  /\ UNCHANGED <<poolVars, manager, unitWorker, unitCapture>>

\* queue.requeue(task), of a task the caller holds
Requeue(id) ==
  /\ id \in DOMAIN unitQueue.held
  /\ unitQueue.held[id].retryCount < MaxRetriesCfg
  /\ unitQueue' = [unitQueue EXCEPT
                     !.q = requeue(@, unitQueue.held[id]),
                     !.held = MapDelete(@, id),
                     !.requeues = @ + 1]
  /\ UNCHANGED <<poolVars, manager, unitWorker, unitCapture>>

\* queue.markComplete(taskId), of a task the caller holds
MarkComplete(id) ==
  /\ id \in DOMAIN unitQueue.held
  /\ unitQueue' = [unitQueue EXCEPT
                     !.q = markComplete(@, id),
                     !.held = MapDelete(@, id)]
  /\ UNCHANGED <<poolVars, manager, unitWorker, unitCapture>>

NextQueue ==
  \/ \E url \in QueueUrls : Enqueue(url)
  \/ \E url1, url2 \in QueueUrls : EnqueueAll(url1, url2)
  \/ Dequeue
  \/ \E id \in 1..MaxEnqueued : Requeue(id)
  \/ \E id \in 1..MaxEnqueued : MarkComplete(id)

SpecQueue == InitDefault /\ [][NextQueue]_vars

\* ------------------------------------------------------------------------
\* A Worker on its own (worker.ts), its caller awaiting every call
\* ------------------------------------------------------------------------
\* worker.connect(), from construction or after an error
WorkerConnect(ok) ==
  /\ unitWorker.pc = "idle"
  /\ unitWorker.wk.status \in {"stopped", "error"}
  /\ unitWorker.others < MaxOtherCalls
  /\ unitWorker' = [unitWorker EXCEPT
                      !.wk = connect(@, ok, ConnectFailure),
                      !.others = @ + 1,
                      !.errors = IF ok THEN @ ELSE Append(@, 0)]
  /\ UNCHANGED <<poolVars, manager, unitQueue, unitCapture>>

\* worker.process(task) up to its first await, or to its return without a
\* capture; the call may come while an earlier capture is in flight
WorkerProcess ==
  /\ unitWorker.calls < MaxProcessCalls
  /\ LET p == processBegin(unitWorker.wk)
         task == QueueTask(unitWorker.calls + 1, <<"a">>)
     IN IF p.capturing
          THEN unitWorker' = [unitWorker EXCEPT !.wk = p.worker, !.pc = "capturing",
                                                !.task = task, !.calls = @ + 1]
          ELSE /\ unitWorker.others < MaxOtherCalls
               /\ unitWorker' = [unitWorker EXCEPT !.wk = p.worker, !.result = p.result,
                                                   !.calls = @ + 1, !.others = @ + 1]
  /\ UNCHANGED <<poolVars, manager, unitQueue, unitCapture>>

\* the capture settles and worker.process(task) returns
WorkerSettles(outcome) ==
  /\ unitWorker.pc = "capturing"
  /\ LET p == processSettle(unitWorker.wk, unitWorker.task, outcome)
         other == outcome.kind = "throw" \/ isSuccessStatus(outcome.result.status)
     IN /\ other => unitWorker.others < MaxOtherCalls
        /\ unitWorker' = [unitWorker EXCEPT
                            !.wk = p.worker, !.pc = "idle", !.result = p.result,
                            !.others = IF other THEN @ + 1 ELSE @,
                            !.errors = IF p.worker.errorCount > unitWorker.wk.errorCount
                                         THEN Append(@, unitWorker.task.taskId) ELSE @,
                            !.returned = IF outcome.kind = "return" THEN @ + 1 ELSE @,
                            !.failures = IF outcome.kind = "return"
                                            /\ outcome.result.status # "success"
                                           THEN @ + 1 ELSE @,
                            !.thrown = IF outcome.kind = "throw" THEN @ + 1 ELSE @]
  /\ UNCHANGED <<poolVars, manager, unitQueue, unitCapture>>

NextWorker ==
  \/ \E ok \in BOOLEAN : WorkerConnect(ok)
  \/ WorkerProcess
  \/ \E outcome \in CaptureOutcomes : WorkerSettles(outcome)

SpecWorker == InitDefault /\ [][NextWorker]_vars

\* ------------------------------------------------------------------------
\* A PageCapturer.capture call on its own (page-capturer.ts)
\* ------------------------------------------------------------------------
\* the tasks captured: the taskId is the string itself
CaptureTasks ==
  { [NoTask EXCEPT !.taskId = <<"t">>, !.url = <<"a">>, !.labels = labels,
                   !.correlationId = correlationId, !.captureOptions = captureOptions] :
      labels \in { <<>>, << <<"x">> >>, << <<"x">>, <<"y", "z">> >> },
      correlationId \in { <<>>, <<"c", "1">> },
      captureOptions \in [png : BOOLEAN, jpeg : BOOLEAN, html : BOOLEAN] }

\* how the promise awaited at pc can settle, and for page.goto and the
\* renderings, the timer of withTimeout firing first
Settlements(pc) ==
  LET none == [present |-> FALSE, status |-> 0]
      responses == IF pc = "goto"
                     THEN {none} \cup {[present |-> TRUE, status |-> code] :
                                         code \in {199, 200, 299, 300, 404}}
                     ELSE {none}
  IN {[kind |-> "value", message |-> <<>>, response |-> r] : r \in responses}
     \cup {[kind |-> "error", message |-> m, response |-> none] :
             m \in CaptureExceptionMessages \cup {<<"Navigation", "timeout", "exceeded">>}}
     \cup (IF pc \in {"goto", "render"}
            THEN {[kind |-> "timer", message |-> <<>>, response |-> none]} ELSE {})

\* pageCapturer.capture(browser, task, workerId)
PageCapture(task) ==
  /\ unitCapture.c.pc = "none"
  /\ unitCapture' = [c |-> captureCall(task), events |-> <<>>]
  /\ UNCHANGED <<poolVars, manager, unitQueue, unitWorker>>

\* the promise the capture awaits settles
PageCaptureSettles(settled) ==
  /\ unitCapture.c.pc \notin {"none", "returned"}
  /\ settled \in Settlements(unitCapture.c.pc)
  /\ unitCapture' = [c |-> capture(unitCapture.c, settled, CaptureConfig),
                     events |-> Append(unitCapture.events,
                                       [pc |-> unitCapture.c.pc, ext |-> unitCapture.c.ext,
                                        settled |-> settled])]
  /\ UNCHANGED <<poolVars, manager, unitQueue, unitWorker>>

NextCapture ==
  \/ \E task \in CaptureTasks : PageCapture(task)
  \/ \E settled \in Settlements(unitCapture.c.pc) : PageCaptureSettles(settled)

SpecCapture == InitDefault /\ [][NextCapture]_vars

\* ------------------------------------------------------------------------
\* Properties
\* ------------------------------------------------------------------------
\* a step that is a submitCapture call: the handler passes an answer to its
\* callback
SubmitCaptureCalled == response.kind = "none" /\ response'.kind # "none"

PendingIds == {taskQueue.queue[i].taskId : i \in DOMAIN taskQueue.queue}

\* the workers whose loop holds a task (dequeued, not yet requeued or completed)
Holding == {w \in Workers : loops[w].pc \in {"capturing", "returned"}}

\* C1: Worker.process is invoked at most maxRetries + 1 times for every accepted
\* task, and with maxRetries = 0 a task that has been handled was attempted
\* exactly once.
C1_RetryBound ==
  /\ \A id \in DOMAIN attempts : attempts[id] <= config.maxRetries + 1
  /\ config.maxRetries = 0 =>
       \A id \in DOMAIN accepted :
         id \in taskQueue.completed \cup taskQueue.processing => Count(attempts, id) = 1

\* a task was attempted maxRetries + 1 = 2 times and then completed, while
\* another loop was running
C1_Witness ==
  /\ config.maxRetries = 1
  /\ \E id \in DOMAIN accepted : id \in taskQueue.completed /\ Count(attempts, id) = 2
  /\ Cardinality(workerLoopPromises) = 2

\* C2: every queue entry is handed by dequeue() to exactly one loop: two loops
\* never hold the same taskId, and no entry (taskId with its retryCount) is
\* dequeued twice.
C2_ExactlyOneLoop ==
  /\ \A w1, w2 \in Holding : w1 # w2 => loops[w1].task.taskId # loops[w2].task.taskId
  /\ \A key \in DOMAIN dequeueCount : dequeueCount[key] = 1

\* two loops hold a task each at the same time
C2_Witness ==
  /\ Cardinality(Holding) = 2
  /\ \A w \in Holding : loops[w].task.taskId \in DOMAIN accepted

\* C3: the pending, processing and completed taskIds are pairwise disjoint.
C3_DisjointPartitions ==
  /\ PendingIds \cap taskQueue.processing = {}
  /\ PendingIds \cap taskQueue.completed = {}
  /\ taskQueue.processing \cap taskQueue.completed = {}

\* a requeued task is pending next to a completed one
C3_Witness ==
  /\ taskQueue.completed # {}
  /\ \E i \in DOMAIN taskQueue.queue : taskQueue.queue[i].retryCount > 0

\* the message a failed attempt carries: CaptureResult.error, or the message of
\* its errorDetails when capture() built the result
FailureMessage(result) ==
  IF result.error # <<>> THEN result.error ELSE result.errorDetails.message

\* a failed attempt whose message names a disconnected or closed session
ConnectionClassFailure(result) ==
  /\ ~isSuccessStatus(result.status)
  /\ Includes(FailureMessage(result), "disconnect")
       \/ Includes(FailureMessage(result), "closed")

\* the loops to which Worker.process has just returned the result of a capture
Returned == {w \in Workers : loops[w].pc = "returned" /\ ~loops[w].result.synthetic}

\* C4: when a capture on a connected worker fails with a message containing
\* "disconnect" or "closed", Worker.process returns with the worker in error
\* (after any other outcome, in idle), and the worker's loop exits once it has
\* handled that task.
C4_ConnectionFailureStopsWorker ==
  /\ [](\A w \in Returned :
          workers[w].status = IF ConnectionClassFailure(loops[w].result) THEN "error"
                                                                         ELSE "idle")
  /\ [][\A w \in Returned :
          ConnectionClassFailure(loops[w].result) => loops'[w].pc = "exited"]_vars

\* the URLs carried by the pending tasks and by the tasks the loops hold
PendingUrls == {taskQueue.queue[i].url : i \in DOMAIN taskQueue.queue}

ProcessingUrls == {loops[w].task.url : w \in Holding}

\* a submitCapture call that got as far as enqueueTask
ReachesEnqueueTask == SubmitCaptureCalled /\ uuids' = uuids + 1

\* exactly one task, with the fields given, is added at the tail of pending
AppendedToTail(taskId, url) ==
  /\ Len(taskQueue'.queue) = Len(taskQueue.queue) + 1
  /\ SubSeq(taskQueue'.queue, 1, Len(taskQueue.queue)) = taskQueue.queue
  /\ taskQueue'.queue[Len(taskQueue'.queue)].taskId = taskId
  /\ taskQueue'.queue[Len(taskQueue'.queue)].url = url
  /\ taskQueue'.queue[Len(taskQueue'.queue)].retryCount = 0
  /\ taskQueue'.processing = taskQueue.processing
  /\ taskQueue'.processingUrls = taskQueue.processingUrls
  /\ taskQueue'.completed = taskQueue.completed

\* C5: with rejectDuplicateUrls set, enqueueTask for a URL that a pending or
\* processing task carries fails with "URL already in queue: <url>" and leaves
\* the queue unchanged; with the flag off or the URL absent the task is
\* appended to the tail of pending and the call succeeds.
C5_DuplicateUrlRejected ==
  [][ReachesEnqueueTask =>
       LET url == Trim(request'.url)
       IN IF config.rejectDuplicateUrls /\ url \in PendingUrls \cup ProcessingUrls
            THEN /\ response' = Rejection(<<"URL already in queue: ", url>>)
                 /\ taskQueue' = taskQueue
            ELSE /\ response'.accepted
                 /\ AppendedToTail(uuids', url)]_vars

\* a submission was rejected for a URL that only a task being processed carries
C5_Witness ==
  /\ config.rejectDuplicateUrls
  /\ response = Rejection(<<"URL already in queue: ", Trim(request.url)>>)
  /\ Trim(request.url) \in ProcessingUrls \ PendingUrls

\* the URLs of the accepted tasks that have not been marked complete
UncompletedUrls == {accepted[id] : id \in DOMAIN accepted \ taskQueue.completed}

\* C6: with rejectDuplicateUrls set, the URL of an accepted task is refused by
\* enqueueTask in every state before the task is marked complete (pending,
\* processing, or requeued for a retry), and a submission of a URL whose
\* earlier tasks are all complete is accepted.
C6_RejectedUntilComplete ==
  /\ [](config.rejectDuplicateUrls =>
          \A url \in UncompletedUrls :
            ~enqueueTask(taskQueue, config, [NoTask EXCEPT !.url = url]).success)
  /\ [][config.rejectDuplicateUrls /\ ReachesEnqueueTask =>
          (response'.accepted <=> Trim(request'.url) \notin UncompletedUrls)]_vars

\* a URL was accepted a second time, after its first task had failed, been
\* requeued, retried and marked complete
C6_Witness ==
  /\ config.rejectDuplicateUrls
  /\ \E i, j \in DOMAIN accepted :
       /\ i # j
       /\ accepted[i] = accepted[j]
       /\ Count(attempts, i) = 2
       /\ i \in taskQueue.completed

\* the workers of the pool that hold a session and are idle or busy
HealthyNow ==
  {w \in PoolWorkers : workers[w].browser /\ workers[w].status \in {"idle", "busy"}}

\* C7: once the pool is initialized a worker in error stays out of idle and
\* busy and is given no further task, and the number of healthy workers never
\* increases.
C7_NoWorkerRestart ==
  [][initPc # "connecting" =>
       /\ \A w \in Workers :
            workers[w].status = "error" =>
              /\ workers'[w].status \notin {"idle", "busy"}
              /\ loops'[w].pc \notin {"capturing", "returned"}
              /\ loops'[w].task \in {loops[w].task, NoTask}
       /\ Cardinality(HealthyNow') <= Cardinality(HealthyNow)]_vars

\* a worker that had a loop is in error, its loop has exited, and a task waits
\* in the queue while the pool has not been shut down
C7_Witness ==
  /\ running
  /\ shutdownPc = "none"
  /\ taskQueue.queue # <<>>
  /\ \E w \in workerLoopPromises : workers[w].status = "error" /\ loops[w].pc = "exited"

\* a request that passes every validation of submitCapture
ValidRequest(req) ==
  /\ Trim(req.url) # <<>>
  /\ req.capture_options.defined
  /\ req.capture_options.png \/ req.capture_options.jpeg \/ req.capture_options.html
  /\ \A i \in DOMAIN req.labels :
       Trim(req.labels[i]) # <<>> => validateFilename(Trim(req.labels[i])).valid
  /\ req.correlation_id # <<>> => validateFilename(req.correlation_id).valid

\* C8: a valid submission made while the pool is not running or has no healthy
\* worker is answered UNAVAILABLE "No healthy workers available" and enqueues
\* nothing; a worker entering error does not reset the running flag, which only
\* shutdown() clears.
C8_UnavailableWithoutHealthyWorker ==
  [][/\ SubmitCaptureCalled /\ ValidRequest(request')
          /\ (~running \/ HealthyNow = {})
        => response' = Unavailable /\ taskQueue' = taskQueue /\ uuids' = uuids
     /\ running /\ ~running' => shutdownPc = "none" /\ shutdownPc' = "waitLoops"]_vars

\* a valid submission was answered UNAVAILABLE by a running pool whose last
\* healthy worker had entered error
C8_Witness ==
  /\ response = Unavailable
  /\ ValidRequest(request)
  /\ running
  /\ shutdownPc = "none"
  /\ HealthyNow = {}
  /\ \E w \in workerLoopPromises : workers[w].status = "error"

\* the four validations of submitCapture, each by itself
UrlCheck(req) ==
  IF req.url = <<>> \/ Trim(req.url) = <<>> THEN Invalid(<<"url is required">>) ELSE Valid

LabelsCheck(req) ==
  IF Len(TrimLabels(req.labels)) > 0 THEN validateLabels(TrimLabels(req.labels)) ELSE Valid

CorrelationIdCheck(req) ==
  IF req.correlation_id # <<>> THEN validateFilename(req.correlation_id) ELSE Valid

CaptureOptionsCheck(req) ==
  validateCaptureOptions(captureOptionsFromProto(req.capture_options))

\* the first failing validation of a list of them, Valid when none fails
RECURSIVE FirstFailure(_)
FirstFailure(checks) ==
  IF checks = <<>> THEN Valid
  ELSE IF ~Head(checks).valid THEN Head(checks) ELSE FirstFailure(Tail(checks))

\* a submitCapture call answers with the first failing validation of checks,
\* then with the availability of the pool, and only then goes on to enqueue
AnswersInOrder(checks) ==
  SubmitCaptureCalled =>
    IF ~FirstFailure(checks).valid
      THEN response' = Rejection(FirstFailure(checks).error)
    ELSE IF ~running \/ HealthyNow = {}
      THEN response' = Unavailable
    ELSE response'.kind = "reply" /\ uuids' = uuids + 1

\* C9 as stated: submitCapture applies its checks in the order url, labels,
\* correlationId, captureOptions, pool availability, and reports the first
\* failing one.
C9_OrderUrlLabelsCorrelationIdOptions ==
  [][AnswersInOrder(<<UrlCheck(request'), LabelsCheck(request'),
                      CorrelationIdCheck(request'), CaptureOptionsCheck(request')>>)]_vars

\* C9 amended: submitCapture applies its checks in the order url,
\* captureOptions, labels, correlationId, pool availability, and reports the
\* first failing one; an invalid request to an unavailable pool gets the
\* in-band rejection.
C9_OrderUrlOptionsLabelsCorrelationId ==
  [][AnswersInOrder(<<UrlCheck(request'), CaptureOptionsCheck(request'),
                      LabelsCheck(request'), CorrelationIdCheck(request')>>)]_vars

\* a request with an invalid label and no capture flag set was rejected with
\* the error of the capture options, by a pool that was not available
C9_Witness ==
  /\ ~LabelsCheck(request).valid
  /\ ~CaptureOptionsCheck(request).valid
  /\ response = Rejection(CaptureOptionsCheck(request).error)
  /\ ~running

\* the three outcomes of a submitCapture call
InBandRejection ==
  /\ response'.kind = "reply"
  /\ ~response'.accepted
  /\ response'.task_id = 0
  /\ taskQueue' = taskQueue

TransportUnavailable ==
  /\ response'.kind = "UNAVAILABLE"
  /\ taskQueue' = taskQueue

AcceptanceOutcome ==
  /\ response'.kind = "reply"
  /\ response'.accepted
  /\ response'.task_id \in TaskIds
  /\ response'.task_id \notin
       DOMAIN accepted \cup PendingIds \cup taskQueue.processing \cup taskQueue.completed
  /\ AppendedToTail(response'.task_id, Trim(request'.url))

\* C10: every submitCapture call ends in exactly one of an in-band rejection
\* (accepted false, empty taskId, queue unchanged), a transport UNAVAILABLE
\* error (queue unchanged), or an acceptance (accepted true, a fresh taskId,
\* and exactly one task with that taskId and retryCount 0 appended to pending).
C10_ExactlyOneOutcome ==
  [][SubmitCaptureCalled =>
       \/ InBandRejection /\ ~TransportUnavailable /\ ~AcceptanceOutcome
       \/ ~InBandRejection /\ TransportUnavailable /\ ~AcceptanceOutcome
       \/ ~InBandRejection /\ ~TransportUnavailable /\ AcceptanceOutcome]_vars

\* a second submission was accepted with an id of its own and its task stands
\* behind the first one in pending
C10_Witness ==
  /\ response.accepted
  /\ Len(taskQueue.queue) = 2
  /\ taskQueue.queue[2].taskId = response.task_id
  /\ taskQueue.queue[2].retryCount = 0
  /\ taskQueue.queue[1].taskId # response.task_id

\* the workers whose connect() failed: connect's catch is the only place that
\* records an error without a task
FailedConnect ==
  {w \in Workers : \E i \in DOMAIN stats[w].errorHistory :
                     stats[w].errorHistory[i] = [message |-> ConnectFailure, taskId |-> 0]}

\* C11: initialize() throws iff no endpoint connects; a worker whose connect
\* failed stays in error (until shutdown() disconnects it), gets no dispatch
\* loop at start() and never processes a task: its processedCount stays 0.
C11_FailedWorkersNeverDispatched ==
  /\ initPc # "connecting" => (initPc = "failed" <=> FailedConnect = Workers)
  /\ \A w \in FailedConnect :
       /\ w \notin workerLoopPromises
       /\ loops[w].pc = "none"
       /\ stats[w].processedCount = 0
       /\ workers[w].status =
            IF shutdownPc \in {"none", "waitLoops"} THEN "error" ELSE "stopped"

\* the pool was initialized with one endpoint failing, and runs: the other
\* worker has processed a task, the failed one none
C11_Witness ==
  /\ initPc = "initialized"
  /\ running
  /\ FailedConnect # {}
  /\ \E w \in Workers \ FailedConnect : stats[w].processedCount > 0

\* C12: start() on a running pool changes nothing; the first start() calls
\* workerLoop once for each worker healthy at that moment and for no other, and
\* after any number of start() calls no worker has had workerLoop called twice.
C12_StartIdempotent ==
  /\ [][startCalls' = startCalls + 1 =>
          IF running
            THEN UNCHANGED <<config, workers, stats, taskQueue, running,
                             workerLoopPromises, loops, spawned, attempts, dequeueCount>>
            ELSE spawned' = [w \in Workers |-> IF w \in HealthyNow THEN 1 ELSE 0]]_vars
  /\ [](\A w \in Workers : spawned[w] <= 1)

\* start() was called twice and the loops of the first call are at work
C12_Witness ==
  /\ startCalls = 2
  /\ \E w \in Workers : spawned[w] = 1 /\ loops[w].pc = "capturing"

\* C13: a worker with a capture in flight keeps its session and stays busy:
\* shutdown() calls disconnect() only when every dispatch loop has returned, so
\* no capture is in flight once it disconnects the workers.
C13_NoDisconnectWhileBusy ==
  /\ \A w \in Workers :
       loops[w].pc = "capturing" =>
         workers[w].browser /\ workers[w].status = "busy" /\ w \notin disconnecting
  /\ shutdownPc \in {"disconnecting", "done"} =>
       \A w \in Workers : loops[w].pc \in {"none", "exited"} /\ workers[w].status # "busy"

\* shutdown() has been called and waits while a capture is in flight
C13_Witness ==
  /\ shutdownPc = "waitLoops"
  /\ ~running
  /\ \E w \in Workers : loops[w].pc = "capturing" /\ workers[w].status = "busy"

\* C14: with every capture returning, a shutdown() call completes, whatever the
\* queue holds and whatever the loops are doing; when it has completed, running
\* is false, every worker is stopped without a session, and none is healthy.
C14_ShutdownCompletes ==
  /\ (shutdownPc = "waitLoops") ~> (shutdownPc = "done")
  /\ [](shutdownPc = "done" =>
          /\ ~running
          /\ \A w \in Workers : workers[w].status = "stopped" /\ ~workers[w].browser
          /\ HealthyNow = {})

\* shutdown() has completed on a pool that had a worker in error, with a task
\* left pending
C14_Witness ==
  /\ shutdownPc = "done"
  /\ taskQueue.queue # <<>>
  /\ workerLoopPromises # {}
  /\ workerLoopPromises # Workers


\* ------------------------------------------------------------------------
\* C15: transitionTo follows the table: idle -> busy/error/stopped,
\* busy -> idle/error/stopped, error -> idle/stopped and stopped -> idle/error
\* change the status; a call naming the current status changes nothing and
\* does not throw; error -> busy and stopped -> busy throw "Invalid status
\* transition" and leave the status as it was.
\* ------------------------------------------------------------------------
C15_TransitionTable ==
  [][manager'.calls # manager.calls =>
       LET AllowedPairs ==
             { <<"idle", "busy">>, <<"idle", "error">>, <<"idle", "stopped">>,
               <<"busy", "idle">>, <<"busy", "error">>, <<"busy", "stopped">>,
               <<"error", "idle">>, <<"error", "stopped">>,
               <<"stopped", "idle">>, <<"stopped", "error">> }
           RejectedPairs == { <<"error", "busy">>, <<"stopped", "busy">> }
           from == manager.status
           next == manager'.calls[Len(manager'.calls)]
       IN  CASE from = next ->
                  manager'.status = from /\ manager'.thrown = <<>>
             [] <<from, next>> \in AllowedPairs ->
                  manager'.status = next /\ manager'.thrown = <<>>
             [] <<from, next>> \in RejectedPairs ->
                  /\ manager'.status = from
                  /\ manager'.thrown # <<>>
                  /\ manager'.thrown[1] = "Invalid status transition:"
             [] OTHER -> FALSE]_vars

\* a rejected call has left an error status where it was, after allowed ones
C15_Witness ==
  /\ manager.calls = <<"idle", "busy", "error", "busy">>
  /\ manager.status = "error"
  /\ manager.thrown = InvalidTransition("error", "busy")


\* ------------------------------------------------------------------------
\* C16: a task is dispatched with retryCount 0, 1, ... in turn, never beyond
\* maxRetries; when an attempt returns, the task is requeued with retryCount
\* + 1 if and only if the attempt was a non-success (httpError, timeout or
\* failed) with retryCount < maxRetries, and is marked complete otherwise, so
\* a task that never succeeds is completed after the attempt with retryCount
\* = maxRetries.
\* ------------------------------------------------------------------------
C16_RetrySchedule ==
  /\ [][\A w \in Workers :
          loops[w].pc = "returned" /\ loops'[w] # loops[w] =>
            LET task == loops[w].task
                retriedTask == [task EXCEPT !.retryCount = @ + 1]
                pendingAfter == {taskQueue'.queue[i] : i \in DOMAIN taskQueue'.queue}
            IN IF loops[w].result.status \in {"httpError", "timeout", "failed"}
                  /\ task.retryCount < config.maxRetries
                 THEN /\ task.taskId \notin taskQueue'.completed
                      /\ \/ retriedTask \in pendingAfter
                         \/ loops'[w].task = retriedTask
                 ELSE /\ task.taskId \in taskQueue'.completed
                      /\ \A t \in pendingAfter : t.taskId # task.taskId
                      /\ loops'[w].task.taskId # task.taskId
                      /\ \/ loops[w].result.status = "success"
                         \/ task.retryCount = config.maxRetries]_vars
  /\ [](\A key \in DOMAIN dequeueCount :
          /\ key[2] \in 0..config.maxRetries
          /\ key[2] > 0 => <<key[1], key[2] - 1>> \in DOMAIN dequeueCount)

\* the attempt with retryCount = maxRetries has timed out, after the first
\* attempt of the task was retried
C16_Witness ==
  \E w \in Workers :
    /\ loops[w].pc = "returned"
    /\ loops[w].result.status = "timeout"
    /\ config.maxRetries = 1
    /\ loops[w].task.retryCount = 1
    /\ DOMAIN dequeueCount = {<<loops[w].task.taskId, 0>>, <<loops[w].task.taskId, 1>>}

\* ------------------------------------------------------------------------
\* C17: the queue is first in, first out: as long as nothing was requeued,
\* the tasks dequeue() has returned are the first tasks enqueued (by enqueue
\* or enqueueAll), in the order they were enqueued; dequeue() on an empty
\* queue returns nothing and changes no state.
\* ------------------------------------------------------------------------
C17_FirstInFirstOut ==
  /\ [](unitQueue.requeues = 0 =>
          LET tasksReturned == SelectSeq(unitQueue.returned, LAMBDA id : id # 0)
          IN /\ Len(tasksReturned) <= Len(unitQueue.enqueued)
             /\ \A i \in DOMAIN tasksReturned : tasksReturned[i] = i)
  /\ [][Len(unitQueue'.returned) > Len(unitQueue.returned) /\ unitQueue.q.queue = <<>> =>
          /\ unitQueue'.returned = Append(unitQueue.returned, 0)
          /\ unitQueue'.q = unitQueue.q
          /\ unitQueue'.held = unitQueue.held]_vars

\* three tasks came back in the order they were enqueued in, and a further
\* dequeue() found the queue empty
C17_Witness ==
  /\ unitQueue.returned = <<1, 2, 3, 0>>
  /\ unitQueue.requeues = 0
  /\ unitQueue.q.processing = {2, 3}
  /\ unitQueue.q.completed = {1}

\* ------------------------------------------------------------------------
\* C19: hasUrl(u) is true exactly when a pending task or a task in processing
\* (dequeued, neither requeued nor marked complete) has the URL u; the URL of
\* a completed task does not make it true.
\* ------------------------------------------------------------------------
C19_HasUrlPendingOrProcessing ==
  /\ unitQueue.q.processing = DOMAIN unitQueue.held
  /\ \A url \in QueueUrls :
       hasUrl(unitQueue.q, url) <=>
         \/ \E i \in DOMAIN unitQueue.q.queue : unitQueue.q.queue[i].url = url
         \/ \E id \in DOMAIN unitQueue.held : unitQueue.held[id].url = url

\* the only task with URL a is completed and hasUrl(a) is false, while the
\* tasks with URL b, one pending again and one in processing, make hasUrl(b) true
C19_Witness ==
  /\ unitQueue.enqueued = << <<"a">>, <<"b">>, <<"b">> >>
  /\ unitQueue.q.completed = {1}
  /\ unitQueue.q.processing = {3}
  /\ Len(unitQueue.q.queue) = 1 /\ unitQueue.q.queue[1].retryCount = 1
  /\ ~hasUrl(unitQueue.q, <<"a">>)
  /\ hasUrl(unitQueue.q, <<"b">>)

\* ------------------------------------------------------------------------
\* C18: a retried task enters the pending tasks only in the step that handles
\* the return of its failing attempt, and behind every task pending at that
\* moment: the loop that goes on takes the head of those tasks, never the
\* retried one while another is pending.
\* ------------------------------------------------------------------------
C18_RequeueAtTail ==
  [][LET pending == taskQueue.queue
         Entries(q, ls) == {q[i] : i \in DOMAIN q} \cup {ls[w].task : w \in Workers}
         Requeueing(w, t) ==
           /\ loops[w].pc = "returned"
           /\ loops'[w] # loops[w]
           /\ ~isSuccessStatus(loops[w].result.status)
           /\ loops[w].task = [t EXCEPT !.retryCount = @ - 1]
     IN /\ \A t \in Entries(taskQueue'.queue, loops') \ Entries(pending, loops) :
             t.retryCount > 0 => \E w \in Workers : Requeueing(w, t)
        /\ \A w \in Workers :
             \A t \in Entries(taskQueue'.queue, loops') :
               Requeueing(w, t) =>
                 \/ taskQueue'.queue = Append(pending, t)
                 \/ /\ pending # <<>>
                    /\ loops'[w].task = Head(pending)
                    /\ taskQueue'.queue = Append(Tail(pending), t)
                 \/ /\ pending = <<>>
                    /\ loops'[w].task = t
                    /\ taskQueue'.queue = <<>>]_vars

\* the only loop took the second task while the first one, retried, waits
\* behind it
C18_Witness ==
  \E w \in Workers :
    /\ workerLoopPromises = {w}
    /\ loops[w].pc = "capturing"
    /\ loops[w].task.taskId = 2 /\ loops[w].task.retryCount = 0
    /\ Len(taskQueue.queue) = 1
    /\ taskQueue.queue[1].taskId = 1 /\ taskQueue.queue[1].retryCount = 1
    /\ DOMAIN dequeueCount = {<<1, 0>>, <<2, 0>>}

\* ------------------------------------------------------------------------
\* C20: errorHistory holds the newest error records, newest first, and never
\* more than 10: with n errors raised it is the last min(n, 10) of them in
\* reverse order, so the 11th error drops the oldest record (after the
\* errors of tasks 1..12 the history is 12, 11, ..., 3).
\* ------------------------------------------------------------------------
C20_ErrorHistoryNewestFirst ==
  LET errorHistory == unitWorker.wk.errorHistory
      errors == unitWorker.errors
  IN /\ Len(errorHistory) <= 10
     /\ Len(errorHistory) = Min(Len(errors), 10)
     /\ \A i \in DOMAIN errorHistory :
          errorHistory[i].taskId = errors[Len(errors) + 1 - i]

\* twelve captures in a row have failed: the history runs from 12 down to 3
C20_Witness ==
  /\ unitWorker.errors = <<1, 2, 3, 4, 5, 6, 7, 8, 9, 10, 11, 12>>
  /\ [i \in DOMAIN unitWorker.wk.errorHistory |-> unitWorker.wk.errorHistory[i].taskId]
       = <<12, 11, 10, 9, 8, 7, 6, 5, 4, 3>>
  /\ unitWorker.wk.errorCount = 12

\* ------------------------------------------------------------------------
\* C21: single flight. A worker with a capture in flight is busy, holds a
\* session and has exactly one dispatch loop, which awaits that capture; so
\* at most NumWorkers captures are in flight, every task in processing is
\* held by exactly one loop, and the processing count never exceeds the
\* number of workers that were given a loop.
\* ------------------------------------------------------------------------
C21_SingleFlight ==
  LET Capturing == {w \in Workers : loops[w].pc = "capturing"}
  IN /\ \A w \in Capturing :
          /\ workers[w].status = "busy" /\ workers[w].browser
          /\ w \in workerLoopPromises /\ spawned[w] = 1
     /\ Cardinality(Capturing) <= NumWorkers
     /\ \A id \in taskQueue.processing :
          Cardinality({w \in Holding : loops[w].task.taskId = id}) = 1
     /\ Cardinality(taskQueue.processing) <= Cardinality(workerLoopPromises)

\* every worker has a capture in flight, one of them of a retried task, and
\* the processing count equals the number of loops
C21_Witness ==
  /\ \A w \in Workers : loops[w].pc = "capturing"
  /\ \E w \in Workers : loops[w].task.retryCount = 1
  /\ Cardinality(taskQueue.processing) = NumWorkers
  /\ Cardinality(workerLoopPromises) = NumWorkers

\* ------------------------------------------------------------------------
\* C24: process(task) on a worker without a session or not idle returns the
\* failed result made up without a capture (captureProcessingTimeMs = 0, the
\* capturer is not invoked) and leaves status, session, processedCount,
\* errorCount and errorHistory as they were; on an idle worker with a session
\* it invokes the capturer.
\* ------------------------------------------------------------------------
C24_UnavailableWorkerUntouched ==
  [][unitWorker'.calls = unitWorker.calls + 1 =>
       IF ~unitWorker.wk.browser \/ unitWorker.wk.status # "idle"
         THEN /\ unitWorker'.result.status = "failed"
              /\ unitWorker'.result.synthetic
              /\ unitWorker'.wk = unitWorker.wk
              /\ unitWorker'.pc = unitWorker.pc
              /\ unitWorker'.task = unitWorker.task
         ELSE /\ unitWorker'.pc = "capturing"
              /\ unitWorker'.task.taskId = unitWorker'.calls]_vars

\* a second process() call was turned away while the first capture is in
\* flight, after an earlier capture had failed
C24_Witness ==
  /\ unitWorker.pc = "capturing"
  /\ unitWorker.wk.status = "busy"
  /\ unitWorker.result.synthetic
  /\ unitWorker.calls = 3 /\ unitWorker.task.taskId = 2
  /\ unitWorker.wk.errorCount = 1 /\ unitWorker.wk.processedCount = 1

\* ------------------------------------------------------------------------
\* C25: whatever the capture does, return any status or throw, process
\* returns a capture result and no exception: toBusy() before the try block
\* does not throw, and at the return the worker is idle or in error, never
\* busy.
\* ------------------------------------------------------------------------
C25_ProcessAlwaysReturns ==
  /\ [][/\ (unitWorker.pc = "idle" /\ unitWorker'.pc = "capturing" =>
             ~transitionTo(unitWorker.wk.status, "busy").threw)
        /\ (unitWorker.pc = "capturing" /\ unitWorker'.pc = "idle" =>
             /\ unitWorker'.result.status \in captureStatus
             /\ unitWorker'.wk.status \in {"idle", "error"})]_vars
  /\ [](unitWorker.pc = "idle" => unitWorker.wk.status # "busy")

\* a capture threw "Target closed": process returned a failed result and the
\* worker is in error, after a capture that threw and left it idle
C25_Witness ==
  /\ unitWorker.pc = "idle"
  /\ unitWorker.thrown = 2
  /\ unitWorker.result.status = "failed"
  /\ unitWorker.result.error = <<"Target", "closed">>
  /\ unitWorker.wk.status = "error"

\* ------------------------------------------------------------------------
\* C26: processedCount is the number of process() calls whose capture
\* returned a result, and errorCount the number of those whose status was not
\* success (plus the captures that threw and the failed connects, none for a
\* connected worker whose captures all returned); a capture that succeeds
\* changes neither errorCount nor errorHistory.
\* ------------------------------------------------------------------------
C26_CountersCountReturns ==
  /\ [](LET connectFailures == Len(SelectSeq(unitWorker.errors, LAMBDA id : id = 0))
        IN /\ unitWorker.wk.processedCount = unitWorker.returned
           /\ unitWorker.wk.errorCount =
                unitWorker.failures + unitWorker.thrown + connectFailures
           /\ (unitWorker.thrown = 0 /\ connectFailures = 0 =>
                unitWorker.wk.errorCount = unitWorker.failures))
  /\ [][unitWorker'.returned = unitWorker.returned + 1
          /\ unitWorker'.result.status = "success" =>
            /\ unitWorker'.wk.errorCount = unitWorker.wk.errorCount
            /\ unitWorker'.wk.errorHistory = unitWorker.wk.errorHistory]_vars

\* a capture timed out and the next one succeeded: processedCount 2,
\* errorCount 1, one error record
C26_Witness ==
  /\ unitWorker.pc = "idle"
  /\ unitWorker.returned = 2 /\ unitWorker.failures = 1 /\ unitWorker.thrown = 0
  /\ unitWorker.result.status = "success"
  /\ unitWorker.wk.processedCount = 2 /\ unitWorker.wk.errorCount = 1
  /\ Len(unitWorker.wk.errorHistory) = 1
  /\ unitWorker.wk.errorHistory[1].taskId = 1

\* ------------------------------------------------------------------------
\* C22: a result of capture with status success has no errorDetails and has
\* the path of an artifact exactly for the format flags requested (png, jpeg,
\* html); a result with any other status has no artifact path.
\* ------------------------------------------------------------------------
C22_ResultShape ==
  unitCapture.c.pc \in {"close", "returned"} =>
    LET result == unitCapture.c.result
        captureOptions == unitCapture.c.task.captureOptions
    IN IF result.status = "success"
         THEN /\ result.errorDetails = NoErrorDetails
              /\ result.pngPath # <<>> <=> captureOptions.png
              /\ result.jpegPath # <<>> <=> captureOptions.jpeg
              /\ result.htmlPath # <<>> <=> captureOptions.html
         ELSE /\ result.status \in {"httpError", "timeout", "failed"}
              /\ result.pngPath = <<>> /\ result.jpegPath = <<>> /\ result.htmlPath = <<>>

\* a capture of png and html, not jpeg, has returned success with those two
\* paths
C22_Witness ==
  /\ unitCapture.c.pc = "returned"
  /\ unitCapture.c.result.status = "success"
  /\ unitCapture.c.task.captureOptions = [png |-> TRUE, jpeg |-> FALSE, html |-> TRUE]
  /\ unitCapture.c.result.pngPath # <<>>
  /\ unitCapture.c.result.jpegPath = <<>>
  /\ unitCapture.c.result.htmlPath # <<>>

\* ------------------------------------------------------------------------
\* C23: the file written for an artifact is named taskId, then "_" and the
\* correlationId if there is one, then "_" and the labels joined by "-" if
\* there are labels, then "." and the extension: {taskId}.{ext},
\* {taskId}_{labels}.{ext}, {taskId}_{correlationId}.{ext} or
\* {taskId}_{correlationId}_{labels}.{ext}.
\* ------------------------------------------------------------------------
C23_FilenameFormat ==
  LET task == unitCapture.c.task
      labels == IF Len(task.labels) = 1 THEN task.labels[1]
                ELSE task.labels[1] \o <<"-">> \o task.labels[2]
      name == CASE task.correlationId = <<>> /\ task.labels = <<>> -> task.taskId
                [] task.correlationId = <<>> /\ task.labels # <<>> ->
                     task.taskId \o <<"_">> \o labels
                [] task.correlationId # <<>> /\ task.labels = <<>> ->
                     task.taskId \o <<"_">> \o task.correlationId
                [] OTHER ->
                     task.taskId \o <<"_">> \o task.correlationId \o <<"_">> \o labels
  IN /\ Len(unitCapture.c.written) <= Len(unitCapture.c.rendered)
     /\ \A i \in DOMAIN unitCapture.c.written :
          unitCapture.c.written[i] =
            <<"o", "u", "t", "/">> \o name \o <<".", unitCapture.c.rendered[i]>>

\* with a correlationId and two labels the png was written as
\* out/t_c1_x-yz.png
C23_Witness ==
  /\ unitCapture.c.written /= <<>>
  /\ unitCapture.c.written[1] =
       <<"o", "u", "t", "/", "t", "_", "c", "1", "_", "x", "-", "y", "z", ".", "png">>
  /\ unitCapture.c.result.pngPath = unitCapture.c.written[1]

\* ------------------------------------------------------------------------
\* C27: a page that capture opened has had its close() awaited, once, when
\* capture returns, whatever the status of the result; without a page no
\* close() is made; the close, failing or not, leaves the result as it was.
\* ------------------------------------------------------------------------
C27_PageClosedOnEveryPath ==
  /\ [](unitCapture.c.pc = "returned" =>
          LET events == unitCapture.events
              opened == events[1].pc = "newPage" /\ events[1].settled.kind = "value"
              closes == {i \in DOMAIN events : events[i].pc = "close"}
          IN /\ unitCapture.c.result.status \in captureStatus
             /\ unitCapture.c.page # "open"
             /\ opened <=> unitCapture.c.page \in {"closed", "closeFailed"}
             /\ closes = IF opened THEN {Len(events)} ELSE {})
  /\ [][unitCapture.c.pc = "close" =>
          /\ unitCapture'.c.pc = "returned"
          /\ unitCapture'.c.result = unitCapture.c.result]_vars

\* the close of the page threw after a screenshot had timed out, and the
\* result is the timeout
C27_Witness ==
  /\ unitCapture.c.pc = "returned"
  /\ unitCapture.c.page = "closeFailed"
  /\ unitCapture.c.result.status = "timeout"
  /\ unitCapture.c.rendered = <<"png">>
  /\ unitCapture.events[Len(unitCapture.events)].settled.message = <<"Target", "closed">>

\* ------------------------------------------------------------------------
\* C28: withTimeout settles as what finishes first: the value or the error of
\* the promise, or an error "Timeout: <message> (<ms>ms)" when the timer
\* fires first; and when it has settled its timer is pending no more, so a
\* timer is pending only while a withTimeout call is awaited.
\* ------------------------------------------------------------------------
C28_TimeoutRaceAndTimerCleared ==
  /\ [](unitCapture.c.timerPending => unitCapture.c.pc \in {"goto", "render"})
  /\ [][unitCapture.c.pc \in {"goto", "render"} /\ unitCapture'.c # unitCapture.c =>
          LET first == unitCapture'.events[Len(unitCapture'.events)].settled
              ms == IF unitCapture.c.pc = "goto" THEN "30000" ELSE "10000"
              caught == unitCapture'.c.result.errorDetails.message
          IN /\ unitCapture.c.timerPending
             /\ ~unitCapture'.c.timerPending
             /\ CASE first.kind = "value" ->
                       unitCapture'.c.result.status \in {"none", "httpError"}
                  [] first.kind = "error" -> caught = first.message
                  [] first.kind = "timer" ->
                       /\ Len(caught) = 6
                       /\ <<caught[1], caught[2], caught[4], caught[5], caught[6]>>
                            = <<"Timeout", ":", "(", ms, "ms)">>]_vars

\* the navigation resolved before its timer, the timer of the png screenshot
\* fired first, and no timer is pending after the return
C28_Witness ==
  /\ unitCapture.c.pc = "returned"
  /\ ~unitCapture.c.timerPending
  /\ Len(unitCapture.events) = 6
  /\ unitCapture.events[3].pc = "goto" /\ unitCapture.events[3].settled.kind = "value"
  /\ unitCapture.events[5].pc = "render" /\ unitCapture.events[5].settled.kind = "timer"

\* ------------------------------------------------------------------------
\* C29: the status of a result of capture is httpError exactly when the
\* navigation returned a response whose status is outside [200, 300), a
\* missing response counting as 0; timeout exactly when an exception was
\* raised whose message contains "Timeout"; failed exactly when another
\* exception was raised; success otherwise.
\* ------------------------------------------------------------------------
C29_OutcomeClassification ==
  unitCapture.c.pc \in {"close", "returned"} =>
    LET events == unitCapture.events
        status == unitCapture.c.result.status
        raised == {i \in DOMAIN events :
                     events[i].pc # "close" /\ events[i].settled.kind # "value"}
        timeouts == {i \in raised :
                       \/ events[i].settled.kind = "timer"
                       \/ \E k \in DOMAIN events[i].settled.message :
                            events[i].settled.message[k] = "Timeout"}
        navigated == {i \in DOMAIN events :
                        events[i].pc = "goto" /\ events[i].settled.kind = "value"}
        code(i) == IF events[i].settled.response.present
                     THEN events[i].settled.response.status ELSE 0
    IN /\ status = "httpError" <=> \E i \in navigated : code(i) < 200 \/ code(i) >= 300
       /\ status = "timeout" <=> timeouts # {}
       /\ status = "failed" <=> raised # {} /\ timeouts = {}
       /\ status = "success" <=>
            raised = {} /\ \A i \in navigated : code(i) >= 200 /\ code(i) < 300

\* the navigation resolved without a response: httpError with status 0
C29_Witness ==
  /\ unitCapture.c.pc = "returned"
  /\ Len(unitCapture.events) = 4
  /\ unitCapture.events[3].settled.kind = "value"
  /\ ~unitCapture.events[3].settled.response.present
  /\ unitCapture.c.result.status = "httpError"
  /\ unitCapture.c.result.httpStatusCode = 0

\* ------------------------------------------------------------------------
\* C30: artifacts are rendered only after the navigation returned a 2xx
\* status, in the order png, jpeg, html and only those requested; a
\* rendering or a write that fails or times out ends the capture with the
\* artifacts after it not rendered; on a status outside 2xx nothing is
\* rendered or written.
\* ------------------------------------------------------------------------
C30_ArtifactOrder ==
  LET c == unitCapture.c
      events == unitCapture.events
      requested == SelectSeq(<<"png", "jpeg", "html">>,
                             LAMBDA ext : c.task.captureOptions[ext])
      aborted == {i \in DOMAIN events :
                    events[i].pc \in {"render", "write"} /\ events[i].settled.kind # "value"}
  IN /\ Len(c.rendered) <= Len(requested)
     /\ c.rendered = SubSeq(requested, 1, Len(c.rendered))
     /\ Len(c.written) <= Len(c.rendered)
     /\ c.rendered # <<>> => c.httpStatusCode >= 200 /\ c.httpStatusCode < 300
     /\ c.result.status = "httpError" => c.rendered = <<>> /\ c.written = <<>>
     /\ c.result.status = "success" => c.rendered = requested /\ Len(c.written) = Len(requested)
     /\ \A i \in aborted :
          /\ c.pc \in {"close", "returned"}
          /\ events[i].ext = c.rendered[Len(c.rendered)]
          /\ \A j \in DOMAIN events : j > i => events[j].pc = "close"

\* with all three requested, the png was written and the jpeg timed out: the
\* html was never rendered
C30_Witness ==
  /\ unitCapture.c.pc = "returned"
  /\ unitCapture.c.task.captureOptions = [png |-> TRUE, jpeg |-> TRUE, html |-> TRUE]
  /\ unitCapture.c.rendered = <<"png", "jpeg">>
  /\ Len(unitCapture.c.written) = 1
  /\ unitCapture.c.result.status = "timeout"

\* ------------------------------------------------------------------------
\* C31: requeue(task) takes the task's id out of processing and appends to
\* the pending tasks a task equal to the given one in taskId, url, labels,
\* correlationId and captureOptions, with retryCount larger by exactly 1;
\* the pending tasks before it and completed are left as they were.
\* ------------------------------------------------------------------------
C31_RequeueFrame ==
  [][unitQueue'.requeues = unitQueue.requeues + 1 =>
       \E id \in DOMAIN unitQueue.held \ DOMAIN unitQueue'.held :
         LET task == unitQueue.held[id]
             before == unitQueue.q
             after == unitQueue'.q
             appended == after.queue[Len(after.queue)]
         IN /\ id \in before.processing
            /\ after.processing = before.processing \ {id}
            /\ Len(after.queue) = Len(before.queue) + 1
            /\ SubSeq(after.queue, 1, Len(before.queue)) = before.queue
            /\ appended.retryCount = task.retryCount + 1
            /\ appended.taskId = task.taskId
            /\ appended.url = task.url
            /\ appended.labels = task.labels
            /\ appended.correlationId = task.correlationId
            /\ appended.captureOptions = task.captureOptions
            /\ after.completed = before.completed]_vars

\* the second task, requeued behind the third while the first is completed,
\* waits with its labels, correlation id and options and retryCount 1
C31_Witness ==
  /\ unitQueue.requeues = 1
  /\ unitQueue.q.completed = {1}
  /\ unitQueue.q.processing = {}
  /\ Len(unitQueue.q.queue) = 2
  /\ unitQueue.q.queue[2] = [QueueTask(2, <<"b">>) EXCEPT !.retryCount = 1]
  /\ unitQueue.q.queue[2].correlationId = <<"c">>
  /\ unitQueue.q.queue[2].labels = << <<"Task", 2>> >>

\* ------------------------------------------------------------------------
\* C32: the completed set only grows: a taskId marked complete stays in
\* completed, is never pending or in processing again and is held by no
\* loop, and the completed count of getStatus never decreases.
\* ------------------------------------------------------------------------
C32_CompletedOnlyGrows ==
  /\ [](\A id \in taskQueue.completed :
          /\ \A i \in DOMAIN taskQueue.queue : taskQueue.queue[i].taskId # id
          /\ id \notin taskQueue.processing
          /\ id \notin DOMAIN taskQueue.processingUrls
          /\ \A w \in Workers : loops[w].task.taskId # id)
  /\ [][/\ taskQueue.completed \subseteq taskQueue'.completed
        /\ getStatus'.queue.completed >= getStatus.queue.completed]_vars

\* the first task was completed after a retry, the second one, retried too,
\* is pending again: two requeues and a completion lie behind
C32_Witness ==
  /\ taskQueue.completed = {1}
  /\ Count(attempts, 1) = 2
  /\ Count(attempts, 2) = 1
  /\ Len(taskQueue.queue) = 1
  /\ taskQueue.queue[1].taskId = 2 /\ taskQueue.queue[1].retryCount = 1
  /\ getStatus.queue.completed = 1

\* ------------------------------------------------------------------------
\* C33: task conservation: every submission accepted so far is in exactly
\* one of pending (once), processing, completed, nothing else is, and the
\* pending, processing and completed counts of getStatus add up to the number
\* of submissions accepted.
\* ------------------------------------------------------------------------
C33_TaskConservation ==
  LET status == getStatus.queue
      pendingOf(id) == {i \in DOMAIN taskQueue.queue : taskQueue.queue[i].taskId = id}
      places(id) == Cardinality(pendingOf(id))
                    + (IF id \in taskQueue.processing THEN 1 ELSE 0)
                    + (IF id \in taskQueue.completed THEN 1 ELSE 0)
  IN /\ \A id \in DOMAIN accepted : places(id) = 1
     /\ \A id \in TaskIds \ DOMAIN accepted : places(id) = 0
     /\ status.pending + status.processing + status.completed
          = Cardinality(DOMAIN accepted)

\* shutdown has completed with two submissions accepted: one task, retried
\* once, is completed, the other is still pending
C33_Witness ==
  /\ shutdownPc = "done"
  /\ DOMAIN accepted = {1, 2}
  /\ taskQueue.completed = {1} /\ Count(attempts, 1) = 2
  /\ Len(taskQueue.queue) = 1 /\ taskQueue.queue[1].taskId = 2
  /\ taskQueue.processing = {}

\* ------------------------------------------------------------------------
\* C34: with rejectDuplicateUrls set, no two distinct tasks that are pending
\* or in processing have the same URL, whatever the interleaving of
\* submissions with dequeues, requeues and completions.
\* ------------------------------------------------------------------------
C34_NoDuplicateUrlInFlight ==
  config.rejectDuplicateUrls =>
    LET inFlight == {taskQueue.queue[i].taskId : i \in DOMAIN taskQueue.queue}
                    \cup taskQueue.processing
    IN /\ inFlight \subseteq DOMAIN accepted
       /\ \A id1, id2 \in inFlight : id1 # id2 => accepted[id1] # accepted[id2]
       /\ \A i, j \in DOMAIN taskQueue.queue :
            i # j => taskQueue.queue[i].url # taskQueue.queue[j].url
       /\ \A i \in DOMAIN taskQueue.queue : \A w \in Workers :
            loops[w].task # NoTask => taskQueue.queue[i].url # loops[w].task.url

\* duplicates are rejected and a second task with the URL of the first was
\* accepted once the first, retried before, had been completed
C34_Witness ==
  /\ config.rejectDuplicateUrls
  /\ DOMAIN accepted = {1, 2}
  /\ accepted[1] = accepted[2]
  /\ taskQueue.completed = {1} /\ Count(attempts, 1) = 2
  /\ taskQueue.processing = {2}

\* ------------------------------------------------------------------------
\* C35: a dispatch loop never exits while the task it dequeued is still in
\* processing: the ids in processing are those of the tasks live loops
\* hold, in the step in which a loop exits its task has been requeued or
\* marked complete, and once shutdown() has completed the processing count
\* is 0 and the pending tasks stay as they are.
\* ------------------------------------------------------------------------
C35_NoExitWhileProcessing ==
  /\ [](/\ taskQueue.processing =
             {loops[w].task.taskId : w \in {v \in Workers : loops[v].pc \in {"capturing", "returned"}}}
        /\ shutdownPc = "done" =>
             /\ getStatus.queue.processing = 0
             /\ \A w \in workerLoopPromises : loops[w].pc = "exited")
  /\ [][/\ \A w \in Workers :
             loops[w].task # NoTask /\ loops'[w].pc = "exited" =>
               LET id == loops[w].task.taskId
               IN /\ id \notin taskQueue'.processing
                  /\ \/ id \in taskQueue'.completed
                     \/ \E i \in DOMAIN taskQueue'.queue :
                          taskQueue'.queue[i] =
                            [loops[w].task EXCEPT !.retryCount = @ + 1]
        /\ shutdownPc = "done" => taskQueue' = taskQueue]_vars

\* shutdown() has completed: the task whose capture failed during shutdown
\* was requeued before its loop exited and stays pending, nothing is in
\* processing
C35_Witness ==
  /\ shutdownPc = "done"
  /\ taskQueue.processing = {}
  /\ Len(taskQueue.queue) = 2
  /\ taskQueue.queue[2].retryCount = 1
  /\ taskQueue.queue[1].retryCount = 0
  /\ \E w \in Workers : loops[w].pc = "exited"

\* ------------------------------------------------------------------------
\* C36: liveness: under the scheduling of FairSpec (loops resumed, timers
\* and captures served), every accepted task is eventually completed, after
\* at most maxRetries requeues, unless shutdown() is called or no worker is
\* healthy any more; a task pending behind retried ones is completed too.
\* ------------------------------------------------------------------------
C36_EveryTaskCompletes ==
  /\ \A id \in TaskIds :
       (id \in DOMAIN accepted) ~>
         (id \in taskQueue.completed \/ ~running \/ HealthyWorkers = {})
  /\ [](\A id \in taskQueue.completed :
          Count(attempts, id) <= config.maxRetries + 1)

\* the pool is running with a healthy worker and both tasks are completed,
\* the first after maxRetries requeues, the second after waiting behind it
C36_Witness ==
  /\ running /\ shutdownPc = "none"
  /\ HealthyWorkers # {}
  /\ taskQueue.completed = {1, 2}
  /\ Count(attempts, 1) = config.maxRetries + 1
  /\ config.maxRetries = MaxRetriesCfg
  /\ Count(attempts, 2) = 1
  /\ Count(dequeueCount, <<1, 1>>) = 1

\* ------------------------------------------------------------------------
\* C37: in the pool a dispatch loop calls Worker.process only on its own
\* worker while that worker is idle with a session: every call starts a
\* capture and makes the worker busy, the "not available" result is never
\* produced, and every attempt counted for a task is a capture attempt.
\* ------------------------------------------------------------------------
C37_ProcessOnlyOnIdleWorker ==
  /\ [](\A w \in Workers :
          /\ ~loops[w].result.synthetic
          /\ loops[w].pc = "capturing" =>
               workers[w].browser /\ workers[w].status = "busy")
  /\ [][\A w \in Workers :
          loops'[w].task # NoTask
          /\ (loops[w].task # loops'[w].task \/ loops[w].pc = "returned") =>
            /\ workers[w].browser /\ workers[w].status = "idle"
            /\ workers'[w].browser /\ workers'[w].status = "busy"
            /\ loops'[w].pc = "capturing"
            /\ Count(attempts', loops'[w].task.taskId)
                 = Count(attempts, loops'[w].task.taskId) + 1]_vars

\* a loop has the failed result of the second capture of its task, its worker
\* idle again, while the other loop's worker is busy with a capture
C37_Witness ==
  \E w, v \in Workers :
    /\ loops[w].pc = "returned"
    /\ loops[w].result.status = "failed" /\ ~loops[w].result.synthetic
    /\ loops[w].task.retryCount = 1
    /\ workers[w].status = "idle" /\ workers[w].browser
    /\ loops[v].pc = "capturing" /\ workers[v].status = "busy"

\* ------------------------------------------------------------------------
\* C38: a worker is idle or busy only while it holds a session, so
\* worker.isHealthy equals isHealthyStatus(worker.getInfo().status) in every
\* reachable state, and healthyWorkers of getStatus is the number of listed
\* workers whose status is idle or busy.
\* ------------------------------------------------------------------------
C38_HealthChecksAgree ==
  /\ \A w \in Workers :
       /\ workers[w].status \in {"idle", "busy"} => workers[w].browser
       /\ isHealthy(Worker(w)) = isHealthyStatus(Worker(w).status)
  /\ getStatus.healthyWorkers =
       Cardinality({w \in DOMAIN getStatus.workers :
                      getStatus.workers[w].status \in {"idle", "busy"}})

\* one worker still holds its session but is in error after a "closed"
\* exception, another is busy: one healthy worker of two listed
C38_Witness ==
  \E w, v \in Workers :
    /\ workers[w].browser /\ workers[w].status = "error"
    /\ workers[v].browser /\ workers[v].status = "busy"
    /\ getStatus.healthyWorkers = 1
    /\ getStatus.totalWorkers = 2

\* ------------------------------------------------------------------------
\* C39: the length of errorHistory is min(errorCount, 10): errorCount grows
\* by one exactly with a failed connect, a non-success result or an escaped
\* exception, each time together with one record put in front of the
\* history, and nothing else changes the history.
\* ------------------------------------------------------------------------
C39_HistoryLengthFollowsCount ==
  /\ [](LET wk == unitWorker.wk
            failedConnects == Len(SelectSeq(unitWorker.errors, LAMBDA id : id = 0))
        IN /\ Len(wk.errorHistory) = Min(wk.errorCount, 10)
           /\ wk.errorCount = failedConnects + unitWorker.failures + unitWorker.thrown)
  /\ [][LET wk == unitWorker.wk
            after == unitWorker'.wk
        IN \/ /\ after.errorCount = wk.errorCount
              /\ after.errorHistory = wk.errorHistory
           \/ /\ after.errorCount = wk.errorCount + 1
              /\ Len(after.errorHistory) = Min(Len(wk.errorHistory) + 1, 10)
              /\ Tail(after.errorHistory)
                   = SubSeq(wk.errorHistory, 1, Len(after.errorHistory) - 1)]_vars

\* eleven errors, among them a failed connect and an escaped exception, and
\* ten records
C39_Witness ==
  /\ unitWorker.wk.errorCount = 11
  /\ Len(unitWorker.wk.errorHistory) = 10
  /\ unitWorker.thrown = 1
  /\ unitWorker.failures = 9
  /\ unitWorker.errors[1] = 0

\* ------------------------------------------------------------------------
\* C40: isRunning is true only if start() spawned dispatch loops: a start()
\* that fails with "No healthy workers available" leaves isRunning false.
\* ------------------------------------------------------------------------
C40_FailedStartLeavesPoolStopped ==
  /\ startThrew => ~isRunning
  /\ isRunning => workerLoopPromises # {}

====
